---- MODULE Spec2Model ----
(***************************************************************************)
(* A model of the portfolio site.                                          *)
(*                                                                         *)
(* The timeline view (the Timeline component and its helpers): the React   *)
(* state of the component, its event handlers as actions, and the values   *)
(* it derives on every render (timeline bounds, column layout, pixel       *)
(* geometry) as operators over the state.                                  *)
(*                                                                         *)
(* The resume builder and the printable resume: the document each holds in *)
(* its React state, the copy under the key resumeData of the browser's     *)
(* local storage, the load effect with its fetch, and the builder's        *)
(* handlers as actions.                                                    *)
(*                                                                         *)
(* Representation.                                                         *)
(*  - A date string is a record: "YYYY-MM" is [s |-> "ym", year, month],   *)
(*    the sentinels are [s |-> "present"] and [s |-> "future"] (with year  *)
(*    and month 0, unused).                                                *)
(*  - A JavaScript Date is [y, m, d]: full year, 0-based month, day of the *)
(*    month.  getTime is an order-preserving number at day granularity.    *)
(*  - The number NaN is a value of its own, outside the range of every     *)
(*    other number of the model; the arithmetic and the comparisons of the *)
(*    code are the operators Plus, Minus, Times, Less, LessEq, Max, Min,   *)
(*    which treat it as JavaScript does.  An Invalid Date is the Date      *)
(*    whose fields are NaN.  A date string that is no sentinel is the pair *)
(*    of numbers split("-").map(Number) makes of it, NaN where the text    *)
(*    has no number.                                                       *)
(*  - Every `new Date()` of one render reads the same evaluation moment,   *)
(*    the variable now.                                                    *)
(*  - minVisualMonths = MIN_ITEM_HEIGHT / pixelsPerMonth is the rational   *)
(*    [num, den]; visual month positions are carried multiplied by den, so *)
(*    that they are integers and every comparison is exact.                *)
(*  - A zoom multiplier is the rational [num, den] (1.5 is 3/2).           *)
(*  - left and width percentages are rationals over the denominator        *)
(*    2 * numColumns.                                                      *)
(*  - isCondensed, which only switches between the timeline and the        *)
(*    condensed list, and the display fields of an entry are left out.     *)
(*  - A resume document is [profile, items, skills]: profile a function    *)
(*    from the fields present to their texts, items and skills sequences.  *)
(*    null is NoDocument.  A JSON text is [json |-> value]: documents hold *)
(*    only texts and arrays, which JSON.stringify and JSON.parse carry     *)
(*    over exactly; a text that does not parse is InvalidJSON.             *)
(*  - activeTab of the builder, which only chooses the panel shown, is     *)
(*    left out: a handler is enabled whenever the builder is rendered.     *)
(***************************************************************************)
EXTENDS Integers, Sequences, FiniteSets, TLC

VARIABLES
    items,              \* resumeData.items: the entries of the document
    now,                \* the evaluation moment, what new Date() returns
    activeFilters,      \* useState: set of active categories
    isReversed,         \* useState: newest first
    pixelsPerMonth,     \* useState: base scale
    zoomZones,          \* useState: sequence of zoom zones
    isAddingZone,       \* useState: the add-zone form is open
    newZoneStart,       \* useState: start year typed in the form
    newZoneEnd,         \* useState: end year typed in the form
    newZoneMultiplier,  \* useState: multiplier selected in the form
    page,               \* the component that is mounted
    localStorage,       \* the value under the key "resumeData", or NoValue
    server,             \* the document GET /api/resume answers with
    loadState,          \* where the load effect of the mounted page stands
    fetchCalls,         \* fetch("/api/resume") calls since the page mounted
    resumeData,         \* useState of the builder / the printable resume
    editingItem,        \* useState of the builder: the entry in the form
    isAddingNew,        \* useState of the builder
    newSkill            \* useState of the builder: text of the skill field

timelineVars == <<items, now, activeFilters, isReversed, pixelsPerMonth, zoomZones,
                  isAddingZone, newZoneStart, newZoneEnd, newZoneMultiplier>>

builderVars == <<page, localStorage, server, loadState, fetchCalls, resumeData,
                 editingItem, isAddingNew, newSkill>>

vars == <<timelineVars, builderVars>>

-----------------------------------------------------------------------------
(* Constants of the program *)

DEFAULT_PIXELS_PER_MONTH == 16

MIN_ITEM_HEIGHT == 60

MinPixelsPerMonth == 2

MaxPixelsPerMonth == 24

ScaleStep == 2

FutureMonths == 6

DefaultZoneStart == 2024

DefaultZoneEnd == 2026

FallbackZoneStart == 2020

FallbackZoneEnd == 2026

MaxColumnWidth == 50

AllCategories == {"education", "employment", "project", "certification"}

-----------------------------------------------------------------------------
(* Date strings and Dates *)

\* Number("abc"), undefined - 1, NaN + 1, ...
NaN == -1000000

Plus(a, b) == IF a = NaN \/ b = NaN THEN NaN ELSE a + b

Minus(a, b) == IF a = NaN \/ b = NaN THEN NaN ELSE a - b

Times(a, b) == IF a = NaN \/ b = NaN THEN NaN ELSE a * b

\* a < b and a <= b: false when either side is NaN.
Less(a, b) == a # NaN /\ b # NaN /\ a < b

LessEq(a, b) == a # NaN /\ b # NaN /\ a <= b

\* Math.max and Math.min: NaN when an argument is NaN.
Max(a, b) == IF a = NaN \/ b = NaN THEN NaN ELSE IF a >= b THEN a ELSE b

Min(a, b) == IF a = NaN \/ b = NaN THEN NaN ELSE IF a <= b THEN a ELSE b

YM(year, month) == [s |-> "ym", year |-> year, month |-> month]

PRESENT == [s |-> "present", year |-> 0, month |-> 0]

FUTURE == [s |-> "future", year |-> 0, month |-> 0]

\* A text with a year and no month ("2023"): the month is undefined.
YearOnly(year) == [s |-> "ym", year |-> year, month |-> NaN]

\* A text with no number at all ("", "tbd", "Present").
NoDate == [s |-> "ym", year |-> NaN, month |-> NaN]

InvalidDate == [y |-> NaN, m |-> NaN, d |-> NaN]

IsLeapYear(y) == (y % 4 = 0 /\ y % 100 # 0) \/ y % 400 = 0

DaysInMonth(y, m) ==
    IF m = 1 THEN (IF IsLeapYear(y) THEN 29 ELSE 28)
    ELSE IF m \in {3, 5, 8, 10} THEN 30 ELSE 31

\* new Date(year, monthIndex): the first day of the month, the month index
\* normalised into 0..11 with carry into the year.
NewDate(year, monthIndex) ==
    IF year = NaN \/ monthIndex = NaN THEN InvalidDate
    ELSE LET t == year * 12 + monthIndex
         IN  [y |-> t \div 12, m |-> t % 12, d |-> 1]

\* date.setMonth(monthValue): the day of the month is kept; a day the target
\* month does not have rolls over into the following month.
setMonth(date, monthValue) ==
    LET t == date.y * 12 + monthValue
        y == t \div 12
        m == t % 12
        dim == DaysInMonth(y, m)
    IN  IF date.d <= dim
        THEN [y |-> y, m |-> m, d |-> date.d]
        ELSE [y |-> (t + 1) \div 12, m |-> (t + 1) % 12, d |-> date.d - dim]

\* date.getTime(), at day granularity (order-preserving).
getTime(date) ==
    IF date = InvalidDate THEN NaN ELSE (date.y * 12 + date.m) * 32 + date.d

\* new Date(time) for a time produced by getTime.
DateOfTime(t) ==
    IF t = NaN THEN InvalidDate
    ELSE [y |-> (t \div 32) \div 12, m |-> (t \div 32) % 12, d |-> t % 32]

\* (a.getFullYear() - b.getFullYear()) * 12 + (a.getMonth() - b.getMonth())
MonthsBetween(a, b) == Plus(Times(Minus(a.y, b.y), 12), Minus(a.m, b.m))

parseDate(dateStr, nw) ==
    IF dateStr.s = "present" \/ dateStr.s = "future"
    THEN nw
    ELSE NewDate(dateStr.year, Minus(dateStr.month, 1))

parseDateForBounds(dateStr, nw) ==
    IF dateStr.s = "present" THEN nw
    ELSE IF dateStr.s = "future" THEN setMonth(nw, nw.m + FutureMonths)
    ELSE NewDate(dateStr.year, Minus(dateStr.month, 1))

isFutureDate(dateStr, nw) ==
    IF dateStr.s = "present" THEN FALSE
    ELSE IF dateStr.s = "future" THEN TRUE
    ELSE Less(getTime(nw), getTime(parseDateForBounds(dateStr, nw)))

\* Mutant of getMonthsDuration: the end month counted in (months + 1).
getMonthsDuration_Inclusive(startDate, endDate, nw) ==
    LET start == parseDate(startDate, nw)
        end == parseDateForBounds(endDate, nw)
        months == Plus(MonthsBetween(end, start), 1)
    IN  Max(1, months)

\* Mutant of getMonthsDuration: the floor Math.max(1, months) left out.
getMonthsDuration_NoFloor(startDate, endDate, nw) ==
    LET start == parseDate(startDate, nw)
        end == parseDateForBounds(endDate, nw)
    IN  MonthsBetween(end, start)

getMonthsDuration(startDate, endDate, nw) ==
    LET start == parseDate(startDate, nw)
        end == parseDateForBounds(endDate, nw)
        months == MonthsBetween(end, start)
    IN  Max(1, months)

-----------------------------------------------------------------------------
(* assignColumnsWithLayout *)

\* [...items].sort((a, b) => parseDate(a.startDate).getTime() -
\*                           parseDate(b.startDate).getTime())
\* Array.prototype.sort is stable: entries with equal keys keep their order.
\* A comparator result of NaN counts as 0, so an entry whose start is an
\* Invalid Date compares equal to every entry.  (The order is defined by the
\* language only while that keeps the comparator consistent, which is so when
\* the valid starts of the list are all equal.)
RECURSIVE InsertSorted(_, _, _)
InsertSorted(x, sorted, nw) ==
    IF sorted = <<>> THEN <<x>>
    ELSE LET last == sorted[Len(sorted)]
         IN  IF ~Less(0, Minus(getTime(parseDate(last.startDate, nw)),
                               getTime(parseDate(x.startDate, nw))))
             THEN Append(sorted, x)
             ELSE Append(InsertSorted(x, SubSeq(sorted, 1, Len(sorted) - 1), nw), last)

\* Mutant of SortByStart: the comparator reversed (b - a), latest start first.
RECURSIVE SortByStart_Descending(_, _)
SortByStart_Descending(its, nw) ==
    IF its = <<>> THEN <<>>
    ELSE
        LET key(k) == getTime(parseDate(its[k].startDate, nw))
            latest == CHOOSE k \in 1..Len(its) :
                        /\ \A j \in 1..Len(its) : ~Less(key(k), key(j))
                        /\ \A j \in 1..(k - 1) : Less(key(j), key(k))
            rest == [j \in 1..(Len(its) - 1) |-> IF j < latest THEN its[j] ELSE its[j + 1]]
        IN  <<its[latest]>> \o SortByStart_Descending(rest, nw)

\* Mutant of SortByStart: an unstable sort, entries with equal starts come
\* out in the reverse of their input order.
RECURSIVE SortByStart_TiesReversed(_, _)
SortByStart_TiesReversed(its, nw) ==
    IF its = <<>> THEN <<>>
    ELSE
        LET key(k) == getTime(parseDate(its[k].startDate, nw))
            earliest == CHOOSE k \in 1..Len(its) :
                        /\ \A j \in 1..Len(its) : ~Less(key(j), key(k))
                        /\ \A j \in (k + 1)..Len(its) : Less(key(k), key(j))
            rest == [j \in 1..(Len(its) - 1) |-> IF j < earliest THEN its[j] ELSE its[j + 1]]
        IN  <<its[earliest]>> \o SortByStart_TiesReversed(rest, nw)

RECURSIVE SortByStart(_, _)
SortByStart(its, nw) ==
    IF its = <<>> THEN <<>>
    ELSE InsertSorted(its[Len(its)], SortByStart(SubSeq(its, 1, Len(its) - 1), nw), nw)

\* Mutant of FirstAvailableColumn: the comparison inverted
\* (columnVisualEnds[col] >= itemStartMonths).
FirstAvailableColumn_Inverted(columnVisualEnds, itemStart) ==
    LET free == {c \in 1..Len(columnVisualEnds) : LessEq(itemStart, columnVisualEnds[c])}
    IN  IF free = {} THEN -1
        ELSE (CHOOSE c \in free : \A o \in free : c <= o) - 1

\* Mutant of FirstAvailableColumn: no column is found free, so that every
\* entry opens a column.
FirstAvailableColumn_NoneFree(columnVisualEnds, itemStart) == -1

\* Mutant of FirstAvailableColumn: the loop without its break, so that the
\* last column that qualifies is taken.
FirstAvailableColumn_Last(columnVisualEnds, itemStart) ==
    LET free == {c \in 1..Len(columnVisualEnds) : LessEq(columnVisualEnds[c], itemStart)}
    IN  IF free = {} THEN -1
        ELSE (CHOOSE c \in free : \A o \in free : c >= o) - 1

\* The first column (0-based) whose visual end is <= itemStartMonths, or -1.
FirstAvailableColumn(columnVisualEnds, itemStart) ==
    LET free == {c \in 1..Len(columnVisualEnds) : LessEq(columnVisualEnds[c], itemStart)}
    IN  IF free = {} THEN -1
        ELSE (CHOOSE c \in free : \A o \in free : c <= o) - 1

\* The first pass: one entry of sortedItems at a time, in order.  acc is
\* [columnVisualEnds, itemBounds]; month positions are multiplied by
\* minVisualMonths.den.
RECURSIVE AssignColumns(_, _, _, _, _, _)
AssignColumns(sortedItems, i, acc, minDate, minVisualMonths, nw) ==
    IF i > Len(sortedItems) THEN acc
    ELSE
        LET item == sortedItems[i]
            itemStart == parseDate(item.startDate, nw)
            itemStartMonths == Times(MonthsBetween(itemStart, minDate), minVisualMonths.den)
            actualDuration == getMonthsDuration(item.startDate, item.endDate, nw)
            visualDuration == Max(minVisualMonths.num,
                                  Times(actualDuration, minVisualMonths.den))
            itemVisualEnd == Plus(itemStartMonths, visualDuration)
            found == FirstAvailableColumn(acc.columnVisualEnds, itemStartMonths)
            assignedColumn == IF found = -1 THEN Len(acc.columnVisualEnds) ELSE found
            ends == IF found = -1 THEN Append(acc.columnVisualEnds, 0)
                    ELSE acc.columnVisualEnds
        IN  AssignColumns(sortedItems, i + 1,
                [columnVisualEnds |-> [ends EXCEPT ![assignedColumn + 1] = itemVisualEnd],
                 itemBounds |-> Append(acc.itemBounds,
                                  [id |-> item.id, start |-> itemStartMonths,
                                   end |-> itemVisualEnd, column |-> assignedColumn])],
                minDate, minVisualMonths, nw)

\* itemBounds after the first pass.
ItemBounds(its, minDate, minVisualMonths, nw) ==
    AssignColumns(SortByStart(its, nw), 1,
                  [columnVisualEnds |-> <<>>, itemBounds |-> <<>>],
                  minDate, minVisualMonths, nw).itemBounds

\* Mutant of LocalLayout: the entry itself is left out of overlappingItems
\* (other.id !== item.id added to the filter).
LocalLayout_ExcludesSelf(item, itemBounds) ==
    LET overlappingItems == {k \in 1..Len(itemBounds) :
                                /\ itemBounds[k].id # item.id
                                /\ Less(itemBounds[k].start, item.end)
                                /\ Less(item.start, itemBounds[k].end)}
        usedColumns == {itemBounds[k].column : k \in overlappingItems}
    IN  [column |-> item.column,
         localColumnCount |-> Cardinality(usedColumns),
         localColumnOffset |->
            IF item.column \in usedColumns
            THEN Cardinality({c \in usedColumns : c < item.column})
            ELSE -1]

\* Mutant of LocalLayout: localColumnCount counts the overlapping entries
\* instead of their distinct columns (overlappingItems.length).
LocalLayout_CountsEntries(item, itemBounds) ==
    LET overlappingItems == {k \in 1..Len(itemBounds) :
                                /\ Less(itemBounds[k].start, item.end)
                                /\ Less(item.start, itemBounds[k].end)}
        usedColumns == {itemBounds[k].column : k \in overlappingItems}
    IN  [column |-> item.column,
         localColumnCount |-> Cardinality(overlappingItems),
         localColumnOffset |->
            IF item.column \in usedColumns
            THEN Cardinality({c \in usedColumns : c < item.column})
            ELSE -1]

\* The second pass for one entry of itemBounds.
LocalLayout(item, itemBounds) ==
    LET overlappingItems == {k \in 1..Len(itemBounds) :
                                /\ Less(itemBounds[k].start, item.end)
                                /\ Less(item.start, itemBounds[k].end)}
        usedColumns == {itemBounds[k].column : k \in overlappingItems}
    IN  [column |-> item.column,
         localColumnCount |-> Cardinality(usedColumns),
         \* sortedColumns.indexOf(item.column)
         localColumnOffset |->
            IF item.column \in usedColumns
            THEN Cardinality({c \in usedColumns : c < item.column})
            ELSE -1]

\* The Map from id to ItemLayout: a later set() of the same id replaces the
\* earlier one.
assignColumnsWithLayout(its, minDate, minVisualMonths, nw) ==
    LET itemBounds == ItemBounds(its, minDate, minVisualMonths, nw)
        ids == {itemBounds[k].id : k \in 1..Len(itemBounds)}
        lastOf(id) == CHOOSE k \in 1..Len(itemBounds) :
                        /\ itemBounds[k].id = id
                        /\ \A j \in 1..Len(itemBounds) : itemBounds[j].id = id => j <= k
    IN  [id \in ids |-> LocalLayout(itemBounds[lastOf(id)], itemBounds)]

-----------------------------------------------------------------------------
(* Timeline bounds, scale and pixel geometry, as functions of their inputs *)

\* Math.min(...S) and Math.max(...S) of a non-empty S.
SetMin(S) == IF NaN \in S THEN NaN ELSE CHOOSE x \in S : \A y \in S : x <= y

SetMax(S) == IF NaN \in S THEN NaN ELSE CHOOSE x \in S : \A y \in S : x >= y

\* Mutant of TimelineBounds: the span without its + 1, the months between
\* minDate and maxDate exclusive of the last.
TimelineBounds_ExclusiveSpan(its, nw) ==
    IF Len(its) = 0
    THEN [minDate |-> nw, maxDate |-> nw, totalMonths |-> 0]
    ELSE
        LET startDates == {getTime(parseDate(its[k].startDate, nw)) : k \in 1..Len(its)}
            endDates == {getTime(parseDateForBounds(its[k].endDate, nw)) : k \in 1..Len(its)}
            allDates == startDates \cup endDates
            min == DateOfTime(SetMin(allDates))
            max == DateOfTime(SetMax(allDates))
        IN  [minDate |-> min, maxDate |-> max,
             totalMonths |-> MonthsBetween(max, min)]

\* Mutant of TimelineBounds: min taken over the start dates only and max over
\* the end dates only.
TimelineBounds_StartsAndEndsApart(its, nw) ==
    IF Len(its) = 0
    THEN [minDate |-> nw, maxDate |-> nw, totalMonths |-> 0]
    ELSE
        LET startDates == {getTime(parseDate(its[k].startDate, nw)) : k \in 1..Len(its)}
            endDates == {getTime(parseDateForBounds(its[k].endDate, nw)) : k \in 1..Len(its)}
            min == DateOfTime(SetMin(startDates))
            max == DateOfTime(SetMax(endDates))
        IN  [minDate |-> min, maxDate |-> max,
             totalMonths |-> Plus(MonthsBetween(max, min), 1)]

\* Mutant of TimelineBounds: the empty list given the inclusive span of
\* minDate = maxDate = now, one month.
TimelineBounds_EmptySpansOneMonth(its, nw) ==
    IF Len(its) = 0
    THEN [minDate |-> nw, maxDate |-> nw, totalMonths |-> Plus(MonthsBetween(nw, nw), 1)]
    ELSE
        LET startDates == {getTime(parseDate(its[k].startDate, nw)) : k \in 1..Len(its)}
            endDates == {getTime(parseDateForBounds(its[k].endDate, nw)) : k \in 1..Len(its)}
            allDates == startDates \cup endDates
            min == DateOfTime(SetMin(allDates))
            max == DateOfTime(SetMax(allDates))
        IN  [minDate |-> min, maxDate |-> max,
             totalMonths |-> Plus(MonthsBetween(max, min), 1)]

\* The useMemo of minDate, maxDate and totalMonths.
TimelineBounds(its, nw) ==
    IF Len(its) = 0
    THEN [minDate |-> nw, maxDate |-> nw, totalMonths |-> 0]
    ELSE
        LET startDates == {getTime(parseDate(its[k].startDate, nw)) : k \in 1..Len(its)}
            endDates == {getTime(parseDateForBounds(its[k].endDate, nw)) : k \in 1..Len(its)}
            allDates == startDates \cup endDates
            min == DateOfTime(SetMin(allDates))
            max == DateOfTime(SetMax(allDates))
        IN  [minDate |-> min, maxDate |-> max,
             totalMonths |-> Plus(MonthsBetween(max, min), 1)]

\* Mutant of NumColumnsOf: the highest column index, without its + 1.
NumColumnsOf_HighestIndex(layouts) ==
    IF DOMAIN layouts = {} THEN 1
    ELSE SetMax({layouts[id].column : id \in DOMAIN layouts})

\* The useMemo of numColumns, from the layout map.
NumColumnsOf(layouts) ==
    IF DOMAIN layouts = {} THEN 1
    ELSE SetMax({layouts[id].column : id \in DOMAIN layouts}) + 1

\* Mutant of getScaleForMonth: the end year taken as exclusive
\* (year < zone.endYear).
getScaleForMonth_EndExclusive(monthIndex, minDate, zones, ppm) ==
    LET year == NewDate(minDate.y, Plus(minDate.m, monthIndex)).y
        hits == {k \in 1..Len(zones) :
                    LessEq(zones[k].startYear, year) /\ Less(year, zones[k].endYear)}
    IN  IF hits = {} THEN ppm
        ELSE LET zone == zones[SetMin(hits)]
             IN  (ppm * zone.multiplier.num) \div zone.multiplier.den

\* Mutant of getScaleForMonth: the multiplier added to the base scale
\* (pixelsPerMonth + zone.multiplier).
getScaleForMonth_AddsMultiplier(monthIndex, minDate, zones, ppm) ==
    LET year == NewDate(minDate.y, Plus(minDate.m, monthIndex)).y
        hits == {k \in 1..Len(zones) :
                    LessEq(zones[k].startYear, year) /\ LessEq(year, zones[k].endYear)}
    IN  IF hits = {} THEN ppm
        ELSE LET zone == zones[SetMin(hits)]
             IN  ppm + (zone.multiplier.num \div zone.multiplier.den)

\* Mutant of getScaleForMonth: the loop without its return, so that the last
\* matching zone of the list decides.
getScaleForMonth_LastMatch(monthIndex, minDate, zones, ppm) ==
    LET year == NewDate(minDate.y, Plus(minDate.m, monthIndex)).y
        hits == {k \in 1..Len(zones) :
                    LessEq(zones[k].startYear, year) /\ LessEq(year, zones[k].endYear)}
    IN  IF hits = {} THEN ppm
        ELSE LET zone == zones[SetMax(hits)]
             IN  (ppm * zone.multiplier.num) \div zone.multiplier.den

\* pixelsPerMonth * zone.multiplier of the first zone of the list that holds
\* the year of the month, else pixelsPerMonth.
getScaleForMonth(monthIndex, minDate, zones, ppm) ==
    LET year == NewDate(minDate.y, Plus(minDate.m, monthIndex)).y
        hits == {k \in 1..Len(zones) :
                    LessEq(zones[k].startYear, year) /\ LessEq(year, zones[k].endYear)}
    IN  IF hits = {} THEN ppm
        ELSE LET zone == zones[SetMin(hits)]
             IN  (ppm * zone.multiplier.num) \div zone.multiplier.den

\* for (let i = 0; i < count; i++) sum += getScaleForMonth(first + i)
\* No iteration when count is NaN.
RECURSIVE SumScale(_, _, _, _, _)
SumScale(first, count, minDate, zones, ppm) ==
    IF ~Less(0, count) THEN 0
    ELSE getScaleForMonth(Plus(first, count - 1), minDate, zones, ppm)
            + SumScale(first, count - 1, minDate, zones, ppm)

TotalHeightOf(totalMonths, minDate, zones, ppm) ==
    SumScale(0, totalMonths, minDate, zones, ppm)

\* Mutant of getPixelOffsetForMonth: every month counted at the base scale,
\* the zoom zones ignored.
getPixelOffsetForMonth_BaseScale(monthIndex, minDate, zones, ppm) ==
    SumScale(0, monthIndex, minDate, <<>>, ppm)

getPixelOffsetForMonth(monthIndex, minDate, zones, ppm) ==
    SumScale(0, monthIndex, minDate, zones, ppm)

\* Mutant of getItemStyle: the floor Math.max(MIN_ITEM_HEIGHT, height) left out.
getItemStyle_NoFloor(item, ctx) ==
    LET start == parseDate(item.startDate, ctx.now)
        monthsFromStart == MonthsBetween(start, ctx.minDate)
        duration == getMonthsDuration(item.startDate, item.endDate, ctx.now)
        height == SumScale(monthsFromStart, duration, ctx.minDate,
                           ctx.zoomZones, ctx.pixelsPerMonth)
        topOffset == getPixelOffsetForMonth(monthsFromStart, ctx.minDate,
                                            ctx.zoomZones, ctx.pixelsPerMonth)
        top == IF ctx.isReversed THEN ctx.totalHeight - topOffset - height
               ELSE topOffset
    IN  [top |-> top, height |-> height]

\* Mutant of getItemStyle: the scale summed over the months of the visual
\* duration, Math.max(minVisualMonths, duration) rounded up to whole months.
getItemStyle_VisualDuration(item, ctx) ==
    LET start == parseDate(item.startDate, ctx.now)
        monthsFromStart == MonthsBetween(start, ctx.minDate)
        duration == Max((MIN_ITEM_HEIGHT + ctx.pixelsPerMonth - 1) \div ctx.pixelsPerMonth,
                        getMonthsDuration(item.startDate, item.endDate, ctx.now))
        summed == SumScale(monthsFromStart, duration, ctx.minDate,
                           ctx.zoomZones, ctx.pixelsPerMonth)
        height == Max(MIN_ITEM_HEIGHT, summed)
        topOffset == getPixelOffsetForMonth(monthsFromStart, ctx.minDate,
                                            ctx.zoomZones, ctx.pixelsPerMonth)
        top == IF ctx.isReversed THEN ctx.totalHeight - topOffset - height
               ELSE topOffset
    IN  [top |-> top, height |-> height]

\* Mutant of getItemStyle: the reversed top measured without the height
\* (totalHeight - topOffset).
getItemStyle_ReversedIgnoresHeight(item, ctx) ==
    LET start == parseDate(item.startDate, ctx.now)
        monthsFromStart == MonthsBetween(start, ctx.minDate)
        duration == getMonthsDuration(item.startDate, item.endDate, ctx.now)
        summed == SumScale(monthsFromStart, duration, ctx.minDate,
                           ctx.zoomZones, ctx.pixelsPerMonth)
        height == Max(MIN_ITEM_HEIGHT, summed)
        topOffset == getPixelOffsetForMonth(monthsFromStart, ctx.minDate,
                                            ctx.zoomZones, ctx.pixelsPerMonth)
        top == IF ctx.isReversed THEN ctx.totalHeight - topOffset
               ELSE topOffset
    IN  [top |-> top, height |-> height]

\* ctx is [minDate, totalHeight, zoomZones, pixelsPerMonth, isReversed, now].
getItemStyle(item, ctx) ==
    LET start == parseDate(item.startDate, ctx.now)
        monthsFromStart == MonthsBetween(start, ctx.minDate)
        duration == getMonthsDuration(item.startDate, item.endDate, ctx.now)
        summed == SumScale(monthsFromStart, duration, ctx.minDate,
                           ctx.zoomZones, ctx.pixelsPerMonth)
        height == Max(MIN_ITEM_HEIGHT, summed)
        topOffset == getPixelOffsetForMonth(monthsFromStart, ctx.minDate,
                                            ctx.zoomZones, ctx.pixelsPerMonth)
        top == IF ctx.isReversed THEN ctx.totalHeight - topOffset - height
               ELSE topOffset
    IN  [top |-> top, height |-> height]

\* left and width of an entry's card, in units of 1 / (2 * numColumns) percent:
\*   columnWidthPercent = min(100 / numColumns, 50)
\*   leftPosition = (100 - columnWidthPercent * localColumnCount) / 2
\*                  + localColumnOffset * columnWidthPercent
ItemBand(layout, numCols) ==
    LET columnWidth == Min(200, 2 * MaxColumnWidth * numCols)
        localTotalWidth == columnWidth * layout.localColumnCount
        centerOffset == (200 * numCols - localTotalWidth) \div 2
    IN  [left |-> centerOffset + layout.localColumnOffset * columnWidth,
         width |-> columnWidth]

-----------------------------------------------------------------------------
(* What a render derives from the state *)

categories == {items[k].category : k \in 1..Len(items)}

IsActive(item) == item.category \in activeFilters

filteredItems == SelectSeq(items, IsActive)

minVisualMonths == [num |-> MIN_ITEM_HEIGHT, den |-> pixelsPerMonth]

bounds == TimelineBounds(filteredItems, now)

minDate == bounds.minDate

maxDate == bounds.maxDate

totalMonths == bounds.totalMonths

itemLayouts == assignColumnsWithLayout(filteredItems, minDate, minVisualMonths, now)

itemBounds == ItemBounds(filteredItems, minDate, minVisualMonths, now)

numColumns == NumColumnsOf(itemLayouts)

totalHeight == TotalHeightOf(totalMonths, minDate, zoomZones, pixelsPerMonth)

StyleContext(reversed) ==
    [minDate |-> minDate, totalHeight |-> totalHeight, zoomZones |-> zoomZones,
     pixelsPerMonth |-> pixelsPerMonth, isReversed |-> reversed, now |-> now]

\* itemLayouts.get(item.id) || { column: 0, localColumnCount: 1, localColumnOffset: 0 }
LayoutOf(item, layouts) ==
    IF item.id \in DOMAIN layouts THEN layouts[item.id]
    ELSE [column |-> 0, localColumnCount |-> 1, localColumnOffset |-> 0]

-----------------------------------------------------------------------------
(* Documents, JSON and local storage *)

\* The fields of the profile that the model follows: a required one and an
\* optional one.
ProfileFields == {"name", "phone"}

\* The value of a property that is not there.
Undefined == "<undefined>"

\* null, as the value of resumeData.
NoDocument ==
    [profile |-> [f \in ProfileFields |-> Undefined],
     items |-> <<>>, skills |-> <<>>, null |-> TRUE]

Document(profile, its, skills) ==
    [profile |-> profile, items |-> its, skills |-> skills, null |-> FALSE]

\* null, as the value of editingItem.
NoItem == [id |-> 0, category |-> "", startDate |-> NoDate, endDate |-> NoDate]

\* localStorage.getItem of a key that was never set.
NoValue == [json |-> NoDocument, text |-> "none"]

\* A text that JSON.parse rejects.
InvalidJSON == [json |-> NoDocument, text |-> "invalid"]

\* JSON.stringify(value) and JSON.parse(text).
stringify(value) == [json |-> value, text |-> "json"]

parse(text) == text.json

-----------------------------------------------------------------------------
(* Event handlers of the timeline *)

\* The options of the multiplier <select>.
MultiplierOptions ==
    {[num |-> 3, den |-> 2], [num |-> 2, den |-> 1],
     [num |-> 3, den |-> 1], [num |-> 4, den |-> 1]}

DefaultMultiplier == [num |-> 2, den |-> 1]

\* Mutant of toggleFilter: the active category deleted without the test of
\* newFilters.size > 1.
toggleFilter_DeletesLast(category) ==
    /\ activeFilters' =
        IF category \in activeFilters
        THEN activeFilters \ {category}
        ELSE activeFilters \cup {category}
    /\ UNCHANGED <<items, now, isReversed, pixelsPerMonth, zoomZones,
                   isAddingZone, newZoneStart, newZoneEnd, newZoneMultiplier>>
    /\ UNCHANGED builderVars

toggleFilter(category) ==
    /\ activeFilters' =
        IF category \in activeFilters
        THEN (IF Cardinality(activeFilters) > 1
              THEN activeFilters \ {category} ELSE activeFilters)
        ELSE activeFilters \cup {category}
    /\ UNCHANGED <<items, now, isReversed, pixelsPerMonth, zoomZones,
                   isAddingZone, newZoneStart, newZoneEnd, newZoneMultiplier>>
    /\ UNCHANGED builderVars

\* A filter button exists for each category of the document.
ToggleFilter == \E category \in categories : toggleFilter(category)

ToggleReversed ==
    /\ isReversed' = ~isReversed
    /\ UNCHANGED <<items, now, activeFilters, pixelsPerMonth, zoomZones,
                   isAddingZone, newZoneStart, newZoneEnd, newZoneMultiplier>>
    /\ UNCHANGED builderVars

\* Mutant of ScaleDecrease: the lower limit left out (pixelsPerMonth - 2).
ScaleDecrease_NoLowerLimit ==
    /\ pixelsPerMonth' = pixelsPerMonth - ScaleStep
    /\ UNCHANGED <<items, now, activeFilters, isReversed, zoomZones,
                   isAddingZone, newZoneStart, newZoneEnd, newZoneMultiplier>>
    /\ UNCHANGED builderVars

ScaleDecrease ==
    /\ pixelsPerMonth' = Max(MinPixelsPerMonth, pixelsPerMonth - ScaleStep)
    /\ UNCHANGED <<items, now, activeFilters, isReversed, zoomZones,
                   isAddingZone, newZoneStart, newZoneEnd, newZoneMultiplier>>
    /\ UNCHANGED builderVars

ScaleIncrease ==
    /\ pixelsPerMonth' = Min(MaxPixelsPerMonth, pixelsPerMonth + ScaleStep)
    /\ UNCHANGED <<items, now, activeFilters, isReversed, zoomZones,
                   isAddingZone, newZoneStart, newZoneEnd, newZoneMultiplier>>
    /\ UNCHANGED builderVars

ScaleReset ==
    /\ pixelsPerMonth' = DEFAULT_PIXELS_PER_MONTH
    /\ UNCHANGED <<items, now, activeFilters, isReversed, zoomZones,
                   isAddingZone, newZoneStart, newZoneEnd, newZoneMultiplier>>
    /\ UNCHANGED builderVars

\* newZoneStart <= newZoneEnd: the zone is appended and the form closes;
\* otherwise nothing changes.  The Add button exists while the form is open.
\* Mutant of addZoomZone: the zone appended without the test of
\* newZoneStart <= newZoneEnd.
addZoomZone_Unchecked ==
    /\ isAddingZone
    /\ zoomZones' = Append(zoomZones,
                        [startYear |-> newZoneStart, endYear |-> newZoneEnd,
                         multiplier |-> newZoneMultiplier])
    /\ isAddingZone' = FALSE
    /\ UNCHANGED <<items, now, activeFilters, isReversed, pixelsPerMonth,
                   newZoneStart, newZoneEnd, newZoneMultiplier>>
    /\ UNCHANGED builderVars

addZoomZone ==
    /\ isAddingZone
    /\ IF newZoneStart <= newZoneEnd
       THEN /\ zoomZones' = Append(zoomZones,
                                [startYear |-> newZoneStart, endYear |-> newZoneEnd,
                                 multiplier |-> newZoneMultiplier])
            /\ isAddingZone' = FALSE
       ELSE UNCHANGED <<zoomZones, isAddingZone>>
    /\ UNCHANGED <<items, now, activeFilters, isReversed, pixelsPerMonth,
                   newZoneStart, newZoneEnd, newZoneMultiplier>>
    /\ UNCHANGED builderVars

\* zoomZones.filter((_, i) => i !== index), index 0-based.
RemoveAt(seq, index) ==
    [k \in 1..(Len(seq) - 1) |-> IF k <= index THEN seq[k] ELSE seq[k + 1]]

removeZoomZone(index) ==
    /\ zoomZones' = RemoveAt(zoomZones, index)
    /\ UNCHANGED <<items, now, activeFilters, isReversed, pixelsPerMonth,
                   isAddingZone, newZoneStart, newZoneEnd, newZoneMultiplier>>
    /\ UNCHANGED builderVars

\* A remove button exists for each zone of the list.
RemoveZoomZone == \E index \in 0..(Len(zoomZones) - 1) : removeZoomZone(index)

OpenAddZone ==
    /\ ~isAddingZone
    /\ isAddingZone' = TRUE
    /\ UNCHANGED <<items, now, activeFilters, isReversed, pixelsPerMonth, zoomZones,
                   newZoneStart, newZoneEnd, newZoneMultiplier>>
    /\ UNCHANGED builderVars

CancelAddZone ==
    /\ isAddingZone
    /\ isAddingZone' = FALSE
    /\ UNCHANGED <<items, now, activeFilters, isReversed, pixelsPerMonth, zoomZones,
                   newZoneStart, newZoneEnd, newZoneMultiplier>>
    /\ UNCHANGED builderVars

\* parseInt(e.target.value) || fallback: typed is the integer the text parses
\* to, 0 standing for a text that parses to 0 or to NaN.
ParseIntOr(typed, fallback) == IF typed = 0 THEN fallback ELSE typed

setNewZoneStart(typed) ==
    /\ isAddingZone
    /\ newZoneStart' = ParseIntOr(typed, FallbackZoneStart)
    /\ UNCHANGED <<items, now, activeFilters, isReversed, pixelsPerMonth, zoomZones,
                   isAddingZone, newZoneEnd, newZoneMultiplier>>
    /\ UNCHANGED builderVars

setNewZoneEnd(typed) ==
    /\ isAddingZone
    /\ newZoneEnd' = ParseIntOr(typed, FallbackZoneEnd)
    /\ UNCHANGED <<items, now, activeFilters, isReversed, pixelsPerMonth, zoomZones,
                   isAddingZone, newZoneStart, newZoneMultiplier>>
    /\ UNCHANGED builderVars

setNewZoneMultiplier(option) ==
    /\ isAddingZone
    /\ newZoneMultiplier' = option
    /\ UNCHANGED <<items, now, activeFilters, isReversed, pixelsPerMonth, zoomZones,
                   isAddingZone, newZoneStart, newZoneEnd>>
    /\ UNCHANGED builderVars

-----------------------------------------------------------------------------
(* The resume builder and the printable resume *)

defaultItem == [id |-> 0, category |-> "employment", startDate |-> NoDate, endDate |-> NoDate]

\* The fallback of the builder when the fetch fails.
EmptyResume ==
    Document([f \in ProfileFields |-> IF f = "name" THEN "" ELSE Undefined], <<>>, <<>>)

\* The builder has a document and renders its panels; until then it renders
\* a spinner, and every handler returns at `if (!resumeData) return`.
Rendered == page = "builder" /\ ~resumeData.null

\* text.trim() of the texts typed into the skill field.
trim(text) ==
    IF text = " go " THEN "go"
    ELSE IF text = " " THEN ""
    ELSE text

\* Mounting a page: the useState initial values; the effect has not run.
MountPage(p) ==
    /\ page' = p
    /\ resumeData' = NoDocument
    /\ editingItem' = NoItem
    /\ isAddingNew' = FALSE
    /\ newSkill' = ""
    /\ loadState' = "mounted"
    /\ fetchCalls' = 0
    /\ UNCHANGED <<localStorage, server>>
    /\ UNCHANGED timelineVars

\* Mutant of LoadEffect: the local copy is not looked at, the document is
\* always fetched.
LoadEffect_AlwaysFetches ==
    /\ page \in {"builder", "print"}
    /\ loadState = "mounted"
    /\ fetchCalls' = fetchCalls + 1
    /\ loadState' = "fetching"
    /\ UNCHANGED resumeData
    /\ UNCHANGED <<page, localStorage, server, editingItem, isAddingNew, newSkill>>
    /\ UNCHANGED timelineVars

\* The useEffect of both pages: the local copy if there is one, else the
\* fetch.  (A stored text is always one that stringify wrote.)
LoadEffect ==
    /\ page \in {"builder", "print"}
    /\ loadState = "mounted"
    /\ IF localStorage # NoValue
       THEN /\ resumeData' = parse(localStorage)
            /\ loadState' = "local"
            /\ UNCHANGED fetchCalls
       ELSE /\ fetchCalls' = fetchCalls + 1
            /\ loadState' = "fetching"
            /\ UNCHANGED resumeData
    /\ UNCHANGED <<page, localStorage, server, editingItem, isAddingNew, newSkill>>
    /\ UNCHANGED timelineVars

\* .then((data) => setResumeData(data))
FetchResolved ==
    /\ loadState = "fetching"
    /\ resumeData' = server
    /\ loadState' = "fetched"
    /\ UNCHANGED <<page, localStorage, server, fetchCalls, editingItem, isAddingNew,
                   newSkill>>
    /\ UNCHANGED timelineVars

\* .catch(...): the builder falls back to the empty resume, the printable
\* resume stays without a document.
FetchFailed ==
    /\ loadState = "fetching"
    /\ resumeData' = IF page = "builder" THEN EmptyResume ELSE NoDocument
    /\ loadState' = "failed"
    /\ UNCHANGED <<page, localStorage, server, fetchCalls, editingItem, isAddingNew,
                   newSkill>>
    /\ UNCHANGED timelineVars

\* Mutant of saveData: the document is set in memory and not stored.
saveData_MemoryOnly(data) ==
    /\ resumeData' = data
    /\ UNCHANGED localStorage

saveData(data) ==
    /\ resumeData' = data
    /\ localStorage' = stringify(data)

updateProfile(field, value) ==
    /\ Rendered
    /\ saveData([resumeData EXCEPT !.profile[field] = value])
    /\ UNCHANGED <<page, server, loadState, fetchCalls, editingItem, isAddingNew,
                   newSkill>>
    /\ UNCHANGED timelineVars

\* id is what Date.now() returns.
addItem(id) ==
    /\ Rendered
    /\ editingItem' = [defaultItem EXCEPT !.id = id]
    /\ isAddingNew' = TRUE
    /\ UNCHANGED <<page, localStorage, server, loadState, fetchCalls, resumeData,
                   newSkill>>
    /\ UNCHANGED timelineVars

\* The Edit button of the entry at position k.
editItem(k) ==
    /\ Rendered
    /\ editingItem' = resumeData.items[k]
    /\ isAddingNew' = FALSE
    /\ UNCHANGED <<page, localStorage, server, loadState, fetchCalls, resumeData,
                   newSkill>>
    /\ UNCHANGED timelineVars

\* The end date field of the form: setEditingItem({...editingItem, endDate}).
setEndDate(value) ==
    /\ Rendered
    /\ editingItem # NoItem
    /\ editingItem' = [editingItem EXCEPT !.endDate = value]
    /\ UNCHANGED <<page, localStorage, server, loadState, fetchCalls, resumeData,
                   isAddingNew, newSkill>>
    /\ UNCHANGED timelineVars

\* The Cancel button of the form.
cancelEdit ==
    /\ Rendered
    /\ editingItem # NoItem
    /\ editingItem' = NoItem
    /\ isAddingNew' = FALSE
    /\ UNCHANGED <<page, localStorage, server, loadState, fetchCalls, resumeData,
                   newSkill>>
    /\ UNCHANGED timelineVars

\* Mutant of saveItem: in edit mode the entry is taken out of the list and
\* the edited one put at its end.
saveItem_EditMovesToEnd ==
    /\ Rendered
    /\ editingItem # NoItem
    /\ IF isAddingNew
       THEN saveData([resumeData EXCEPT !.items = Append(resumeData.items, editingItem)])
       ELSE LET others(item) == item.id # editingItem.id
            IN  saveData([resumeData EXCEPT !.items =
                            Append(SelectSeq(resumeData.items, others), editingItem)])
    /\ editingItem' = NoItem
    /\ isAddingNew' = FALSE
    /\ UNCHANGED <<page, server, loadState, fetchCalls, newSkill>>
    /\ UNCHANGED timelineVars

saveItem ==
    /\ Rendered
    /\ editingItem # NoItem
    /\ IF isAddingNew
       THEN saveData([resumeData EXCEPT !.items = Append(resumeData.items, editingItem)])
       ELSE saveData([resumeData EXCEPT !.items =
                        [k \in 1..Len(resumeData.items) |->
                            IF resumeData.items[k].id = editingItem.id
                            THEN editingItem ELSE resumeData.items[k]]])
    /\ editingItem' = NoItem
    /\ isAddingNew' = FALSE
    /\ UNCHANGED <<page, server, loadState, fetchCalls, newSkill>>
    /\ UNCHANGED timelineVars

\* confirmed is the answer to confirm(...).
deleteItem(id, confirmed) ==
    /\ Rendered
    /\ IF confirmed
       THEN LET keeps(item) == item.id # id
            IN  saveData([resumeData EXCEPT !.items = SelectSeq(resumeData.items, keeps)])
       ELSE UNCHANGED <<resumeData, localStorage>>
    /\ UNCHANGED <<page, server, loadState, fetchCalls, editingItem, isAddingNew,
                   newSkill>>
    /\ UNCHANGED timelineVars

setNewSkill(text) ==
    /\ Rendered
    /\ newSkill' = text
    /\ UNCHANGED <<page, localStorage, server, loadState, fetchCalls, resumeData,
                   editingItem, isAddingNew>>
    /\ UNCHANGED timelineVars

addSkill ==
    /\ Rendered
    /\ IF trim(newSkill) = ""
       THEN UNCHANGED <<resumeData, localStorage, newSkill>>
       ELSE /\ saveData([resumeData EXCEPT !.skills = Append(resumeData.skills, trim(newSkill))])
            /\ newSkill' = ""
    /\ UNCHANGED <<page, server, loadState, fetchCalls, editingItem, isAddingNew>>
    /\ UNCHANGED timelineVars

removeSkill(skill) ==
    /\ Rendered
    /\ LET keeps(s) == s # skill
       IN  saveData([resumeData EXCEPT !.skills = SelectSeq(resumeData.skills, keeps)])
    /\ UNCHANGED <<page, server, loadState, fetchCalls, editingItem, isAddingNew,
                   newSkill>>
    /\ UNCHANGED timelineVars

\* reader.onload of a chosen file with the text file: a text that parses is
\* saved, one that does not raises an alert.
importJSON(file) ==
    /\ Rendered
    /\ IF file = InvalidJSON
       THEN UNCHANGED <<resumeData, localStorage>>
       ELSE saveData(parse(file))
    /\ UNCHANGED <<page, server, loadState, fetchCalls, editingItem, isAddingNew,
                   newSkill>>
    /\ UNCHANGED timelineVars

-----------------------------------------------------------------------------
(* Bounds of the model and the inputs drawn *)

\* The longest entry list of the packing specification.
MaxItems == 4

\* The longest zoom-zone list: addZoomZone is not offered beyond it.
MaxZones == 1

\* Years typed into the two year fields of the add-zone form (0: not a number).
StartYearInputs == {2026}

EndYearInputs == {0, 2025}

\* Options picked in the multiplier select.
MultiplierInputs == {[num |-> 3, den |-> 2], [num |-> 2, den |-> 1]}

Item(id, category, startDate, endDate) ==
    [id |-> id, category |-> category, startDate |-> startDate, endDate |-> endDate]

\* The timeline page is the one mounted: no builder, no printable resume, and
\* nothing in local storage (the timeline reads the bundled document).
NoBuilder ==
    /\ page = "timeline"
    /\ localStorage = NoValue
    /\ server = NoDocument
    /\ loadState = "loaded"
    /\ fetchCalls = 0
    /\ resumeData = NoDocument
    /\ editingItem = NoItem
    /\ isAddingNew = FALSE
    /\ newSkill = ""

\* The state of a freshly mounted Timeline over the document its and the
\* evaluation moment nw.
MountedTimeline(its, nw) ==
    /\ items = its
    /\ now = nw
    /\ activeFilters = AllCategories
    /\ isReversed = FALSE
    /\ pixelsPerMonth = DEFAULT_PIXELS_PER_MONTH
    /\ zoomZones = <<>>
    /\ isAddingZone = FALSE
    /\ newZoneStart = DefaultZoneStart
    /\ newZoneEnd = DefaultZoneEnd
    /\ newZoneMultiplier = DefaultMultiplier

Mounted(its, nw) == MountedTimeline(its, nw) /\ NoBuilder

\* The add button, while the list is shorter than the model's bound.
AddZoomZone == Len(zoomZones) < MaxZones /\ addZoomZone

SetNewZoneStart == \E typed \in StartYearInputs : setNewZoneStart(typed)

SetNewZoneEnd == \E typed \in EndYearInputs : setNewZoneEnd(typed)

SetNewZoneMultiplier == \E option \in MultiplierInputs : setNewZoneMultiplier(option)

-----------------------------------------------------------------------------
(* The packing specification: every entry list of up to MaxItems entries    *)
(* over a small universe of date ranges, under the scale controls.          *)

PackingNow == [y |-> 2023, m |-> 7, d |-> 15]

\* Date ranges: a short one and one running to the present that start
\* together, one that starts inside them, and a later one that ends before it
\* starts.
PackingRanges ==
    {<<YM(2023, 1), YM(2023, 2)>>, <<YM(2023, 1), PRESENT>>,
     <<YM(2023, 2), YM(2023, 6)>>, <<YM(2023, 5), YM(2023, 3)>>}

PackingCategory(k) == IF k % 2 = 1 THEN "employment" ELSE "education"

PackingLists ==
    UNION {{[k \in 1..n |-> Item(k, PackingCategory(k), f[k][1], f[k][2])] :
                f \in [1..n -> PackingRanges]} : n \in 0..MaxItems}

InitPacking == \E its \in PackingLists : Mounted(its, PackingNow)

NextPacking == ScaleDecrease \/ ScaleIncrease \/ ScaleReset

SpecPacking == InitPacking /\ [][NextPacking]_vars

-----------------------------------------------------------------------------
(* The scenario specification: the documents of the layout scenarios at     *)
(* several evaluation moments, under the filter, orientation and scale      *)
(* controls.                                                                *)

\* Two overlapping entries.
ScenarioA ==
    <<Item(1, "employment", YM(2023, 1), YM(2023, 6)),
      Item(2, "project", YM(2023, 3), YM(2023, 9))>>

\* One entry running to the present.
ScenarioB == <<Item(1, "employment", YM(2023, 1), PRESENT)>>

\* Entries projected into the future.
ScenarioC == <<Item(1, "education", YM(2023, 1), FUTURE)>>

ScenarioC2 ==
    <<Item(1, "employment", YM(2022, 6), YM(2023, 2)),
      Item(2, "project", YM(2023, 3), FUTURE)>>

\* No entries.
ScenarioE == <<>>

\* Three entries starting together, one of them long, and a later short one.
ScenarioStacked ==
    <<Item(1, "employment", YM(2023, 1), YM(2023, 2)),
      Item(2, "employment", YM(2023, 1), YM(2023, 8)),
      Item(3, "project", YM(2023, 1), YM(2023, 2)),
      Item(4, "project", YM(2023, 5), YM(2023, 6))>>

\* Entries that end in the month they start in or before it, and entries
\* that start after some of the evaluation moments.
ScenarioBackwards ==
    <<Item(1, "employment", YM(2023, 3), YM(2023, 3)),
      Item(2, "project", YM(2023, 6), YM(2023, 2)),
      Item(3, "education", YM(2023, 9), PRESENT),
      Item(4, "certification", YM(2023, 5), FUTURE)>>

ScenarioLists ==
    {ScenarioA, ScenarioB, ScenarioC, ScenarioC2, ScenarioE, ScenarioStacked,
     ScenarioBackwards}

\* Evaluation moments: mid-month, and days whose month + 6 is shorter.
ScenarioNows ==
    {[y |-> 2023, m |-> 3, d |-> 15], [y |-> 2023, m |-> 3, d |-> 30],
     [y |-> 2023, m |-> 7, d |-> 31], [y |-> 2023, m |-> 9, d |-> 1]}

InitScenario == \E its \in ScenarioLists, nw \in ScenarioNows : Mounted(its, nw)

NextScenario ==
    ToggleFilter \/ ToggleReversed \/ ScaleDecrease \/ ScaleIncrease \/ ScaleReset

SpecScenario == InitScenario /\ [][NextScenario]_vars

-----------------------------------------------------------------------------
(* The specification of the whole view: documents that span the years       *)
(* around the zoom zones, under every control of the view.                  *)

ViewNow == [y |-> 2026, m |-> 0, d |-> 20]

ViewDocument ==
    <<Item(1, "education", YM(2023, 11), YM(2024, 2)),
      Item(2, "employment", YM(2024, 1), YM(2025, 12)),
      Item(3, "employment", YM(2025, 11), PRESENT)>>

ViewLists == {ViewDocument, ScenarioE}

Init == \E its \in ViewLists : Mounted(its, ViewNow)

Next ==
    \/ ToggleFilter
    \/ ToggleReversed
    \/ ScaleDecrease
    \/ ScaleIncrease
    \/ ScaleReset
    \/ OpenAddZone
    \/ CancelAddZone
    \/ SetNewZoneStart
    \/ SetNewZoneEnd
    \/ SetNewZoneMultiplier
    \/ AddZoomZone
    \/ RemoveZoomZone

Spec == Init /\ [][Next]_vars

-----------------------------------------------------------------------------
(* The zone specification: getScaleForMonth and the geometry built on it    *)
(* over zoom-zone lists of the ZoomZone type, among them multipliers the    *)
(* select does not offer and zones that overlap, under the filter, scale    *)
(* and orientation controls and the remove buttons.                         *)

\* The longest zoom-zone list drawn.
MaxZoneList == 2

UnitMultiplier == [num |-> 1, den |-> 1]

ZoneInputs ==
    {[startYear |-> 2024, endYear |-> 2025, multiplier |-> UnitMultiplier],
     [startYear |-> 2025, endYear |-> 2026, multiplier |-> UnitMultiplier],
     [startYear |-> 2024, endYear |-> 2024, multiplier |-> [num |-> 2, den |-> 1]],
     [startYear |-> 2024, endYear |-> 2026, multiplier |-> [num |-> 3, den |-> 2]]}

ZoneLists == UNION {[1..n -> ZoneInputs] : n \in 0..MaxZoneList}

\* The view over ViewDocument with a zone list in place, the rest of the
\* state as mounted.
InitZones ==
    /\ items = ViewDocument
    /\ now = ViewNow
    /\ activeFilters = AllCategories
    /\ isReversed = FALSE
    /\ pixelsPerMonth = DEFAULT_PIXELS_PER_MONTH
    /\ zoomZones \in ZoneLists
    /\ isAddingZone = FALSE
    /\ newZoneStart = DefaultZoneStart
    /\ newZoneEnd = DefaultZoneEnd
    /\ newZoneMultiplier = DefaultMultiplier
    /\ NoBuilder

NextZones ==
    \/ ToggleFilter
    \/ ToggleReversed
    \/ ScaleDecrease
    \/ ScaleIncrease
    \/ ScaleReset
    \/ RemoveZoomZone

SpecZones == InitZones /\ [][NextZones]_vars

-----------------------------------------------------------------------------
(* The malformed-date specification: documents in which an entry carries a  *)
(* date text that is neither YYYY-MM nor a sentinel, under the filter,      *)
(* orientation and scale controls.                                          *)

\* An end date with no number in it.
MalformedEnd ==
    <<Item(1, "employment", YM(2023, 1), YM(2023, 6)),
      Item(2, "project", YM(2023, 1), NoDate)>>

\* A start date with a year and no month, between two well-formed entries.
MalformedStart ==
    <<Item(1, "employment", YM(2023, 1), YM(2023, 6)),
      Item(2, "education", YearOnly(2023), YM(2023, 3)),
      Item(3, "project", YM(2023, 1), YM(2023, 2))>>

\* A single entry with no start date.
MalformedAlone == <<Item(1, "education", NoDate, PRESENT)>>

MalformedLists == {MalformedEnd, MalformedStart, MalformedAlone}

MalformedNow == [y |-> 2023, m |-> 7, d |-> 15]

InitMalformed == \E its \in MalformedLists : Mounted(its, MalformedNow)

NextMalformed ==
    ToggleFilter \/ ToggleReversed \/ ScaleDecrease \/ ScaleIncrease \/ ScaleReset

SpecMalformed == InitMalformed /\ [][NextMalformed]_vars

-----------------------------------------------------------------------------
(* The builder specification: a browser with nothing stored opens the       *)
(* builder or the printable resume; the page loads, the builder's handlers  *)
(* run, and either page is opened again at any time.                        *)

\* The longest entry list and the longest skill list of a document.
MaxDocItems == 2

MaxSkills == 2

ServedDocument ==
    Document([f \in ProfileFields |-> IF f = "name" THEN "Ada" ELSE Undefined],
             <<Item(1, "employment", YM(2023, 1), YM(2023, 6))>>, <<"go">>)

\* What Date.now() returns when an entry is added.
IdInputs == {1, 2}

PhoneInputs == {"", "1"}

EndDateInputs == {PRESENT}

SkillInputs == {" go ", " "}

\* The files chosen for import: a document, the JSON text null, a text that
\* is not JSON.
ImportFiles ==
    {stringify(Document([f \in ProfileFields |-> IF f = "name" THEN "Bo" ELSE Undefined],
                        <<>>, <<"go", "go">>)),
     stringify(NoDocument),
     InvalidJSON}

InitBuilder ==
    /\ MountedTimeline(<<>>, ViewNow)
    /\ page \in {"builder", "print"}
    /\ localStorage = NoValue
    /\ server = ServedDocument
    /\ loadState = "mounted"
    /\ fetchCalls = 0
    /\ resumeData = NoDocument
    /\ editingItem = NoItem
    /\ isAddingNew = FALSE
    /\ newSkill = ""

OpenPage == \E p \in {"builder", "print"} : MountPage(p)

UpdateProfile == \E value \in PhoneInputs : updateProfile("phone", value)

AddItem == \E id \in IdInputs : addItem(id)

EditItem == \E k \in 1..Len(resumeData.items) : editItem(k)

SetEndDate == \E value \in EndDateInputs : setEndDate(value)

\* Save, while the list is shorter than the model's bound.
SaveItem == (isAddingNew => Len(resumeData.items) < MaxDocItems) /\ saveItem

DeleteItem ==
    \E k \in 1..Len(resumeData.items), confirmed \in BOOLEAN :
        deleteItem(resumeData.items[k].id, confirmed)

SetNewSkill == \E text \in SkillInputs : setNewSkill(text)

AddSkill == Len(resumeData.skills) < MaxSkills /\ addSkill

RemoveSkill == \E k \in 1..Len(resumeData.skills) : removeSkill(resumeData.skills[k])

ImportJSON == \E file \in ImportFiles : importJSON(file)

NextBuilder ==
    \/ OpenPage
    \/ LoadEffect
    \/ FetchResolved
    \/ FetchFailed
    \/ UpdateProfile
    \/ AddItem
    \/ EditItem
    \/ SetEndDate
    \/ cancelEdit
    \/ SaveItem
    \/ DeleteItem
    \/ SetNewSkill
    \/ AddSkill
    \/ RemoveSkill
    \/ ImportJSON

SpecBuilder == InitBuilder /\ [][NextBuilder]_vars

-----------------------------------------------------------------------------
(* The zone list under the add-zone form and the remove buttons, over the   *)
(* empty document.                                                          *)

\* The add button, while the list is shorter than MaxZoneList.
AddZoneToList == Len(zoomZones) < MaxZoneList /\ addZoomZone

InitZoneForm == Mounted(ScenarioE, ViewNow)

NextZoneForm ==
    \/ OpenAddZone
    \/ CancelAddZone
    \/ SetNewZoneStart
    \/ SetNewZoneEnd
    \/ SetNewZoneMultiplier
    \/ AddZoneToList
    \/ RemoveZoomZone

SpecZoneForm == InitZoneForm /\ [][NextZoneForm]_vars

-----------------------------------------------------------------------------
(* Packing under zoom zones: entry lists across the turn of a year, with a  *)
(* zone on either side of it.                                               *)

ZoomedNow == [y |-> 2024, m |-> 5, d |-> 15]

\* A short range and a long one that start together in 2023, a short one in
\* 2024 and one that runs to the present.
ZoomedRanges ==
    {<<YM(2023, 10), YM(2023, 11)>>, <<YM(2023, 10), YM(2024, 2)>>,
     <<YM(2024, 1), YM(2024, 2)>>, <<YM(2024, 3), PRESENT>>}

ZoomedLists ==
    UNION {{[k \in 1..n |-> Item(k, PackingCategory(k), f[k][1], f[k][2])] :
                f \in [1..n -> ZoomedRanges]} : n \in 0..MaxItems}

ZoomedZoneLists ==
    {<<>>,
     <<[startYear |-> 2024, endYear |-> 2024, multiplier |-> [num |-> 2, den |-> 1]]>>,
     <<[startYear |-> 2023, endYear |-> 2023, multiplier |-> [num |-> 3, den |-> 2]]>>}

\* The view as mounted over one of the lists, with a zone list in place.
InitZoomedPacking ==
    /\ items \in ZoomedLists
    /\ now = ZoomedNow
    /\ activeFilters = AllCategories
    /\ isReversed = FALSE
    /\ pixelsPerMonth = DEFAULT_PIXELS_PER_MONTH
    /\ zoomZones \in ZoomedZoneLists
    /\ isAddingZone = FALSE
    /\ newZoneStart = DefaultZoneStart
    /\ newZoneEnd = DefaultZoneEnd
    /\ newZoneMultiplier = DefaultMultiplier
    /\ NoBuilder

NextZoomedPacking ==
    ScaleDecrease \/ ScaleIncrease \/ ScaleReset \/ RemoveZoomZone

SpecZoomedPacking == InitZoomedPacking /\ [][NextZoomedPacking]_vars

-----------------------------------------------------------------------------
(* The visual month interval of an entry, as the layout contract states it: *)
(* start = months from minDate, end = start + max(minVisualMonths, actual   *)
(* duration); both multiplied by pixelsPerMonth, which keeps them integers. *)

VisualInterval(item, minD, ppm, nw) ==
    LET start == MonthsBetween(parseDate(item.startDate, nw), minD) * ppm
    IN  [start |-> start,
         end |-> start + Max(MIN_ITEM_HEIGHT,
                             getMonthsDuration(item.startDate, item.endDate, nw) * ppm)]

\* The visual intervals of the visible entries, by position in filteredItems.
VisualIntervals ==
    LET fi == filteredItems
        minD == TimelineBounds(fi, now).minDate
    IN  [k \in 1..Len(fi) |-> VisualInterval(fi[k], minD, pixelsPerMonth, now)]

\* Strict overlap of two visual intervals [s1, e1) and [s2, e2).
Overlap(a, b) == a.start < b.end /\ b.start < a.end

\* C1: entries assigned to the same column have visual month intervals that
\* do not overlap, for every entry list and every pixelsPerMonth of the range.
C1_SameColumnNoOverlap ==
    LET fi == filteredItems
        L == itemLayouts
        v == VisualIntervals
    IN  \A i, j \in 1..Len(fi) :
            (i # j /\ L[fi[i].id].column = L[fi[j].id].column)
                => ~Overlap(v[i], v[j])

\* C1 witness: a third column is open and a column holds two entries, at a
\* scale other than the default.
C1_Witness ==
    LET fi == filteredItems
        L == itemLayouts
    IN  /\ pixelsPerMonth # DEFAULT_PIXELS_PER_MONTH
        /\ numColumns >= 3
        /\ \E i, j \in 1..Len(fi) : i # j /\ L[fi[i].id].column = L[fi[j].id].column

\* C2: two visible entries whose visual month intervals strictly overlap are
\* drawn in disjoint horizontal bands [left, left + width).
C2_OverlappingEntriesDisjointBands ==
    LET fi == filteredItems
        L == itemLayouts
        n == NumColumnsOf(L)
        v == VisualIntervals
        b == [k \in 1..Len(fi) |-> ItemBand(LayoutOf(fi[k], L), n)]
    IN  \A i, j \in 1..Len(fi) :
            (i # j /\ Overlap(v[i], v[j]))
                => \/ b[i].left + b[i].width <= b[j].left
                   \/ b[j].left + b[j].width <= b[i].left

\* The overlap cluster of a set S of entries (positions in v, their visual
\* intervals): the entries connected to S through strict overlap.
RECURSIVE ClusterOf(_, _)
ClusterOf(S, v) ==
    LET more == {j \in DOMAIN v : \E i \in S : Overlap(v[i], v[j])}
    IN  IF more \subseteq S THEN S ELSE ClusterOf(S \cup more, v)

\* C9: in an overlap cluster of N entries that occupy N distinct columns the
\* localColumnOffset values are exactly 0, 1, ..., N-1, each once.
C9_ClusterOffsetsAreRanks ==
    LET fi == filteredItems
        L == itemLayouts
        v == VisualIntervals
    IN  \A k \in 1..Len(fi) :
            LET cluster == ClusterOf({k}, v)
                N == Cardinality(cluster)
                columns == {L[fi[i].id].column : i \in cluster}
                offsets == {L[fi[i].id].localColumnOffset : i \in cluster}
            IN  Cardinality(columns) = N => offsets = 0..(N - 1)

\* C9 witness: at a scale other than the default, a cluster of three entries
\* in three columns beside an entry outside the cluster.
C9_Witness ==
    LET fi == filteredItems
        L == itemLayouts
        v == VisualIntervals
    IN  /\ pixelsPerMonth # DEFAULT_PIXELS_PER_MONTH
        /\ \E k \in 1..Len(fi) :
            LET cluster == ClusterOf({k}, v)
                columns == {L[fi[i].id].column : i \in cluster}
            IN  /\ Cardinality(cluster) = 3
                /\ Cardinality(columns) = 3
                /\ Len(fi) > 3

\* The {top, height} of every visible entry (by position in filteredItems)
\* in the orientation given.
Styles(reversed) ==
    LET fi == filteredItems
        ctx == StyleContext(reversed)
    IN  [k \in 1..Len(fi) |-> getItemStyle(fi[k], ctx)]

\* C3: the height of every visible entry is at least MIN_ITEM_HEIGHT, at
\* every scale, under every zoom-zone list and in both orientations.
C3_HeightAtLeastMinimum ==
    \A reversed \in BOOLEAN :
        LET st == Styles(reversed)
        IN  \A k \in DOMAIN st : st[k].height >= MIN_ITEM_HEIGHT

\* C3 witness: a zoomed, reversed view at a reduced scale that shows an entry
\* at the floor and an entry above it.
C3_Witness ==
    LET st == Styles(isReversed)
    IN  /\ isReversed
        /\ zoomZones # <<>>
        /\ pixelsPerMonth < DEFAULT_PIXELS_PER_MONTH
        /\ \E k \in DOMAIN st : st[k].height = MIN_ITEM_HEIGHT
        /\ \E k \in DOMAIN st : st[k].height > MIN_ITEM_HEIGHT

\* The single entry of scenario B is shown and now is in April 2023.
ScenarioBShown ==
    /\ items = ScenarioB
    /\ Len(filteredItems) = 1
    /\ now.y = 2023
    /\ now.m = 3

\* C4 as claimed: in scenario B the duration is 4 months, the column is 0 and
\* the height is 4 * pixelsPerMonth floored at MIN_ITEM_HEIGHT (64 at the
\* default scale).
C4_ScenarioB_FourMonths ==
    ScenarioBShown =>
        LET item == filteredItems[1]
        IN  /\ getMonthsDuration(item.startDate, item.endDate, now) = 4
            /\ itemLayouts[item.id].column = 0
            /\ \A reversed \in BOOLEAN :
                  Styles(reversed)[1].height = Max(MIN_ITEM_HEIGHT, 4 * pixelsPerMonth)
            /\ (pixelsPerMonth = DEFAULT_PIXELS_PER_MONTH
                    => Styles(isReversed)[1].height = 64)

\* C4 as amended: in scenario B the duration is 3 months (the whole-month
\* difference between April and January), the column is 0 and the height is
\* 3 * pixelsPerMonth floored at MIN_ITEM_HEIGHT (60 at the default scale).
C4_ScenarioB_ThreeMonths ==
    ScenarioBShown =>
        LET item == filteredItems[1]
        IN  /\ getMonthsDuration(item.startDate, item.endDate, now) = 3
            /\ itemLayouts[item.id].column = 0
            /\ \A reversed \in BOOLEAN :
                  Styles(reversed)[1].height = Max(MIN_ITEM_HEIGHT, 3 * pixelsPerMonth)
            /\ (pixelsPerMonth = DEFAULT_PIXELS_PER_MONTH
                    => Styles(isReversed)[1].height = 60)

\* C4 witness: scenario B at a scale where the floor does not decide the
\* height.
C4_Witness ==
    /\ ScenarioBShown
    /\ 3 * pixelsPerMonth > MIN_ITEM_HEIGHT

\* C5: in scenario A at the default scale, A is in column 0 and B in column
\* 1, both with localColumnCount 2, with localColumnOffset 0 and 1.
C5_ScenarioA_Layout ==
    (/\ items = ScenarioA
     /\ Len(filteredItems) = 2
     /\ pixelsPerMonth = DEFAULT_PIXELS_PER_MONTH)
        => /\ DOMAIN itemLayouts = {1, 2}
           /\ itemLayouts[1] =
                [column |-> 0, localColumnCount |-> 2, localColumnOffset |-> 0]
           /\ itemLayouts[2] =
                [column |-> 1, localColumnCount |-> 2, localColumnOffset |-> 1]

\* C5 witness: scenario A with both entries shown at the default scale,
\* reached again after a change of scale and orientation.
C5_Witness ==
    /\ items = ScenarioA
    /\ Len(filteredItems) = 2
    /\ pixelsPerMonth = DEFAULT_PIXELS_PER_MONTH
    /\ isReversed

\* The month, counted from year 0, that a Date lies in.
MonthIndex(date) == date.y * 12 + date.m

\* C6 as claimed, for the entries that have begun (start month not after the
\* month of now): for an entry ending in "future" the bound end lies in the
\* sixth month after now, isFutureDate holds, maxDate is no earlier than that
\* month, and the entry's month span ends at that month.
C6_FutureEndIsSixMonthsAhead ==
    LET fi == filteredItems
    IN  \A k \in 1..Len(fi) :
            (/\ fi[k].endDate = FUTURE
             /\ MonthIndex(parseDate(fi[k].startDate, now)) <= MonthIndex(now))
                => LET item == fi[k]
                       sixAhead == MonthIndex(now) + FutureMonths
                       monthsFromStart ==
                           MonthsBetween(parseDate(item.startDate, now), minDate)
                       duration ==
                           getMonthsDuration(item.startDate, item.endDate, now)
                   IN  /\ MonthIndex(parseDateForBounds(item.endDate, now)) = sixAhead
                       /\ isFutureDate(item.endDate, now)
                       /\ MonthIndex(maxDate) >= sixAhead
                       /\ MonthIndex(minDate) + monthsFromStart + duration = sixAhead

\* The calendar year of the month at monthIndex of the timeline.
YearOfMonth(monthIndex) == (MonthIndex(minDate) + monthIndex) \div 12

ScenarioDZone == [startYear |-> 2024, endYear |-> 2025, multiplier |-> [num |-> 2, den |-> 1]]

\* C7: under the single zoom zone {2024, 2025, 2x} at 16 px/month, a month
\* of 2024 or 2025 has scale 32 and any other month scale 16, and
\* totalHeight is 32 * (months in 2024-2025) + 16 * (other months).
C7_ScenarioD_ZoomedHeight ==
    (zoomZones = <<ScenarioDZone>> /\ pixelsPerMonth = 16)
        => LET months == 0..(totalMonths - 1)
               zoomed == {i \in months : YearOfMonth(i) \in {2024, 2025}}
           IN  /\ \A i \in months :
                     getScaleForMonth(i, minDate, zoomZones, pixelsPerMonth)
                        = IF i \in zoomed THEN 32 ELSE 16
               /\ totalHeight = 32 * Cardinality(zoomed)
                                  + 16 * Cardinality(months \ zoomed)

\* C7 witness: the zone of scenario D over a timeline with months before,
\* inside and after 2024-2025.
C7_Witness ==
    /\ zoomZones = <<ScenarioDZone>>
    /\ pixelsPerMonth = 16
    /\ \E i \in 0..(totalMonths - 1) : YearOfMonth(i) < 2024
    /\ \E i \in 0..(totalMonths - 1) : YearOfMonth(i) = 2025
    /\ \E i \in 0..(totalMonths - 1) : YearOfMonth(i) > 2025

\* C8: with no visible entry, totalMonths and totalHeight are 0, the layout
\* map is empty and the render yields its values (one column, no styles).
C8_ScenarioE_Empty ==
    Len(filteredItems) = 0
        => /\ totalMonths = 0
           /\ totalHeight = 0
           /\ DOMAIN itemLayouts = {}
           /\ numColumns = 1
           /\ Styles(isReversed) = <<>>

\* C8 witness: every entry of a document filtered out, with a zoom zone set.
C8_Witness ==
    /\ Len(filteredItems) = 0
    /\ Len(items) > 0
    /\ zoomZones # <<>>

\* C10: the reversed top of every entry is totalHeight - top - height of its
\* normal top, with the same height, so that mirroring it again gives the
\* normal top back.
C10_ReverseTwiceRestoresTop ==
    LET normal == Styles(FALSE)
        mirrored == Styles(TRUE)
        H == totalHeight
    IN  \A k \in DOMAIN normal :
            /\ mirrored[k].height = normal[k].height
            /\ mirrored[k].top = H - normal[k].top - normal[k].height
            /\ H - mirrored[k].top - mirrored[k].height = normal[k].top

\* C10 witness: a reversed, zoomed view in which an entry's top differs from
\* its top in the normal orientation.
C10_Witness ==
    /\ isReversed
    /\ zoomZones # <<>>
    /\ \E k \in DOMAIN Styles(TRUE) : Styles(TRUE)[k].top # Styles(FALSE)[k].top

-----------------------------------------------------------------------------
(* Zoom zones and the scale *)

\* The visible entries' styles under the zone list zones, all else as in the
\* state.
StylesUnder(zones, reversed) ==
    LET fi == filteredItems
        ctx == [StyleContext(reversed) EXCEPT
                    !.zoomZones = zones,
                    !.totalHeight = TotalHeightOf(totalMonths, minDate, zones,
                                                  pixelsPerMonth)]
    IN  [k \in 1..Len(fi) |-> getItemStyle(fi[k], ctx)]

AllUnitZones ==
    /\ zoomZones # <<>>
    /\ \A k \in 1..Len(zoomZones) : zoomZones[k].multiplier = UnitMultiplier

\* C11: a zoom-zone list whose zones all have multiplier 1 gives the same
\* scale for every month, the same totalHeight and the same top and height
\* for every entry as the empty zoom-zone list.
C11_UnitZonesAreNoZones ==
    AllUnitZones =>
        /\ \A i \in 0..(totalMonths - 1) :
              getScaleForMonth(i, minDate, zoomZones, pixelsPerMonth)
                = getScaleForMonth(i, minDate, <<>>, pixelsPerMonth)
        /\ totalHeight = TotalHeightOf(totalMonths, minDate, <<>>, pixelsPerMonth)
        /\ \A reversed \in BOOLEAN :
              StylesUnder(zoomZones, reversed) = StylesUnder(<<>>, reversed)

\* C11 witness: two zones of multiplier 1 that cover some months of the
\* timeline and not others, in a reversed view off the default scale.
C11_Witness ==
    /\ AllUnitZones
    /\ Len(zoomZones) = 2
    /\ isReversed
    /\ pixelsPerMonth # DEFAULT_PIXELS_PER_MONTH
    /\ Len(filteredItems) > 1
    /\ \E i \in 0..(totalMonths - 1) : YearOfMonth(i) < zoomZones[1].startYear
    /\ \E i \in 0..(totalMonths - 1) : YearOfMonth(i) = zoomZones[1].startYear

\* Zone k of the list holds the calendar year of month i.
ZoneHolds(k, i) ==
    /\ YearOfMonth(i) >= zoomZones[k].startYear
    /\ YearOfMonth(i) <= zoomZones[k].endYear

\* C12: the scale of a month is pixelsPerMonth times the multiplier of the
\* first zone of the list that holds its year, whatever later zones hold it
\* too, and pixelsPerMonth for a month in no zone.
C12_FirstMatchingZoneWins ==
    \A i \in 0..(totalMonths - 1) :
        LET scale == getScaleForMonth(i, minDate, zoomZones, pixelsPerMonth)
        IN  /\ (\A k \in 1..Len(zoomZones) : ~ZoneHolds(k, i))
                    => scale = pixelsPerMonth
            /\ \A k \in 1..Len(zoomZones) :
                  (ZoneHolds(k, i) /\ \A j \in 1..(k - 1) : ~ZoneHolds(j, i))
                    => scale * zoomZones[k].multiplier.den
                          = pixelsPerMonth * zoomZones[k].multiplier.num

\* C12 witness: a month held by two zones of different multipliers, and a
\* month held by none.
C12_Witness ==
    /\ Len(zoomZones) = 2
    /\ zoomZones[1].multiplier # zoomZones[2].multiplier
    /\ \E i \in 0..(totalMonths - 1) : ZoneHolds(1, i) /\ ZoneHolds(2, i)
    /\ \E i \in 0..(totalMonths - 1) : ~ZoneHolds(1, i) /\ ~ZoneHolds(2, i)

\* C13: under the scale controls pixelsPerMonth stays within [2, 24], so the
\* divisor of minVisualMonths is strictly positive in every render.
C13_ScaleWithinRange ==
    /\ pixelsPerMonth \in MinPixelsPerMonth..MaxPixelsPerMonth
    /\ pixelsPerMonth > 0
    /\ minVisualMonths.den > 0

\* C13 witness: the scale at its lower limit.
C13_Witness == pixelsPerMonth = MinPixelsPerMonth

-----------------------------------------------------------------------------
(* Malformed dates and the duration floor *)

\* An entry whose start or end text resolves to no date.
IsMalformed(item) ==
    \/ parseDate(item.startDate, now) = InvalidDate
    \/ parseDateForBounds(item.endDate, now) = InvalidDate

\* C14 as claimed: with a malformed entry visible, no invalid date reaches
\* the layout: minDate is a date, totalMonths and totalHeight are positive
\* numbers, the malformed entry has a duration of at least one month, and
\* every other entry has a place: a localColumnCount of at least 1, a
\* localColumnOffset within it, and a card inside the timeline's height.
C14_MalformedDateIsContained ==
    LET fi == filteredItems
        L == itemLayouts
        bad == {k \in 1..Len(fi) : IsMalformed(fi[k])}
    IN  bad # {} =>
            /\ minDate # InvalidDate
            /\ LessEq(1, totalMonths)
            /\ totalHeight > 0
            /\ \A k \in bad :
                  LessEq(1, getMonthsDuration(fi[k].startDate, fi[k].endDate, now))
            /\ \A k \in (1..Len(fi)) \ bad :
                  LET layout == LayoutOf(fi[k], L)
                      style == Styles(isReversed)[k]
                  IN  /\ layout.localColumnCount >= 1
                      /\ layout.localColumnOffset \in 0..(layout.localColumnCount - 1)
                      /\ style.top >= 0
                      /\ style.top + style.height <= Max(totalHeight, MIN_ITEM_HEIGHT)

\* C15: getMonthsDuration is at least 1 for every entry, also when the end
\* resolves to the month of the start or to an earlier one, and is the
\* whole-month difference between the resolved bound end and the resolved
\* start whenever that difference is at least 1.
C15_DurationAtLeastOneMonth ==
    \A k \in 1..Len(items) :
        LET item == items[k]
            difference == MonthIndex(parseDateForBounds(item.endDate, now))
                            - MonthIndex(parseDate(item.startDate, now))
            duration == getMonthsDuration(item.startDate, item.endDate, now)
        IN  /\ duration >= 1
            /\ duration = (IF difference >= 1 THEN difference ELSE 1)

\* C15 witness: a document with an entry that ends before it starts, one
\* that ends in the month it starts in, one running to a present that lies
\* before its start and one of several months.
C15_Witness ==
    LET difference(k) == MonthIndex(parseDateForBounds(items[k].endDate, now))
                            - MonthIndex(parseDate(items[k].startDate, now))
    IN  /\ \E k \in 1..Len(items) : items[k].endDate.s = "ym" /\ difference(k) < 0
        /\ \E k \in 1..Len(items) : difference(k) = 0
        /\ \E k \in 1..Len(items) : items[k].endDate = PRESENT /\ difference(k) < 0
        /\ \E k \in 1..Len(items) : difference(k) > 1

-----------------------------------------------------------------------------
(* Persistence of the resume document *)

\* C16: a step of the builder that changes the document in memory (a
\* mutation, not the load of the page) leaves under the key resumeData the
\* serialisation of the document that results.
C16_MutationIsStored ==
    [][(/\ page = "builder"
        /\ page' = "builder"
        /\ loadState' = loadState
        /\ resumeData' # resumeData)
            => localStorage' = stringify(resumeData')]_vars

\* C16 witness: a builder that loaded the fetched document, with nothing
\* stored then, and now holds a changed document with a stored copy.
C16_Witness ==
    /\ page = "builder"
    /\ loadState = "fetched"
    /\ localStorage # NoValue
    /\ resumeData # server
    /\ Len(resumeData.items) = 2
    /\ Len(resumeData.skills) = 2
    /\ resumeData.profile["phone"] # Undefined

\* C17: when the load effect runs with a local copy, the copy becomes the
\* document and nothing is fetched; with no local copy the document is
\* fetched, once; a fetch is only ever issued with no local copy; and the
\* document fetched becomes the document in memory.
C17_LocalCopyBeforeFetch ==
    [][/\ (loadState = "mounted" /\ loadState' # "mounted")
            => IF localStorage # NoValue
               THEN /\ resumeData' = parse(localStorage)
                    /\ fetchCalls' = 0
                    /\ loadState' = "local"
               ELSE /\ fetchCalls' = 1
                    /\ loadState' = "fetching"
       /\ (fetchCalls' > fetchCalls) => localStorage = NoValue
       /\ (loadState = "fetching" /\ loadState' = "fetched")
            => resumeData' = server /\ fetchCalls' = 1]_vars

\* C17 witness: the printable resume, opened after the builder stored a
\* changed document, holds that document and has fetched nothing.
C17_Witness ==
    /\ page = "print"
    /\ loadState = "local"
    /\ fetchCalls = 0
    /\ ~resumeData.null
    /\ resumeData # server
    /\ localStorage = stringify(resumeData)

-----------------------------------------------------------------------------
(* The packing pass, entry by entry *)

\* The positions in filteredItems of the entries in the order in which they
\* were processed, ib being itemBounds (ids are unique in the documents drawn).
Processed(ib) ==
    LET fi == filteredItems
    IN  [k \in 1..Len(ib) |-> CHOOSE i \in 1..Len(fi) : fi[i].id = ib[k].id]

\* The entries in processing order: the column each was given and its visual
\* interval.
Placements ==
    LET ib == itemBounds
        order == Processed(ib)
        v == VisualIntervals
    IN  [k \in 1..Len(ib) |->
            [id |-> ib[k].id, column |-> ib[k].column,
             start |-> v[order[k]].start, end |-> v[order[k]].end]]

ColumnsBefore(k, p) == {p[j].column : j \in 1..(k - 1)}

\* The watermark of column c when the k-th entry is processed: the visual end
\* of the entry placed in c last, among the entries processed before.
Watermark(c, k, p) == p[SetMax({j \in 1..(k - 1) : p[j].column = c})].end

\* The columns that qualify for the k-th entry.
Qualifying(k, p) == {c \in ColumnsBefore(k, p) : Watermark(c, k, p) <= p[k].start}

\* C18: the k-th entry processed goes to the lowest-index existing column
\* whose watermark is <= its visual start; if no column qualifies it opens a
\* new one, whose index is the number of columns so far.
C18_FirstFitColumn ==
    LET p == Placements
        L == itemLayouts
    IN  /\ Len(p) = Len(filteredItems)
        /\ \A k \in 1..Len(p) :
              LET before == ColumnsBefore(k, p)
                  free == Qualifying(k, p)
              IN  /\ before = 0..(Cardinality(before) - 1)
                  /\ p[k].column =
                        IF free # {} THEN SetMin(free) ELSE Cardinality(before)
                  /\ L[p[k].id].column = p[k].column

\* C18 witness: off the default scale, an entry that opens a column because
\* none of the existing ones qualifies, and a later entry with two qualifying
\* columns.
C18_Witness ==
    LET p == Placements
    IN  /\ pixelsPerMonth # DEFAULT_PIXELS_PER_MONTH
        /\ \E k, l \in 1..Len(p) :
              /\ l < k
              /\ Cardinality(Qualifying(k, p)) >= 2
              /\ ColumnsBefore(l, p) # {}
              /\ Qualifying(l, p) = {}

\* getTime of the resolved starts of the visible entries, by position in
\* filteredItems.
StartKeys ==
    LET fi == filteredItems
    IN  [i \in 1..Len(fi) |-> getTime(parseDate(fi[i].startDate, now))]

\* C19: the entries are processed in ascending order of resolved start, and
\* entries with equal resolved starts in their input order; each entry is
\* processed once.  This fixes the processing order, and with it the layout
\* map, for given entries and evaluation moment.
C19_SortedByStartStable ==
    LET ib == itemBounds
        fi == filteredItems
        order == Processed(ib)
        key == StartKeys
    IN  /\ Len(ib) = Len(fi)
        /\ {ib[k].id : k \in 1..Len(ib)} = {fi[i].id : i \in 1..Len(fi)}
        /\ \A k, l \in 1..Len(ib) :
              k < l => \/ key[order[k]] < key[order[l]]
                       \/ key[order[k]] = key[order[l]] /\ order[k] < order[l]

\* C19 witness: entries given out of start order, among them two with equal
\* starts and different ranges.
C19_Witness ==
    LET fi == filteredItems
        key == StartKeys
        L == itemLayouts
    IN  /\ \E i, j \in 1..Len(fi) : i < j /\ key[j] < key[i]
        /\ \E i, j \in 1..Len(fi) :
              /\ i < j
              /\ fi[i].startDate = fi[j].startDate
              /\ fi[i].endDate # fi[j].endDate
              /\ L[fi[i].id].column < L[fi[j].id].column

\* The columns of the entries whose visual interval overlaps that of entry i
\* (o.start < e.end and o.end > e.start), entry i among them.
OverlappingColumns(i, v, L) ==
    {L[filteredItems[j].id].column :
        j \in {j \in 1..Len(filteredItems) : Overlap(v[j], v[i])}}

\* C20: localColumnCount of an entry is the number of distinct columns among
\* the entries overlapping it, itself included, and localColumnOffset is the
\* 0-based rank of its column among those columns.
C20_LocalCountAndOffset ==
    LET v == VisualIntervals
        L == itemLayouts
    IN  \A i \in 1..Len(filteredItems) :
            LET layout == L[filteredItems[i].id]
                used == OverlappingColumns(i, v, L)
            IN  /\ layout.localColumnCount = Cardinality(used)
                /\ layout.localColumnOffset
                      = Cardinality({c \in used : c < layout.column})

\* C20 witness: an entry overlapped by two entries that share a column, and
\* an entry that overlaps fewer columns than the layout has.
C20_Witness ==
    LET fi == filteredItems
        v == VisualIntervals
        L == itemLayouts
    IN  /\ \E i, j, k \in 1..Len(fi) :
              /\ j # k
              /\ Overlap(v[j], v[i])
              /\ Overlap(v[k], v[i])
              /\ L[fi[j].id].column = L[fi[k].id].column
        /\ \E i, j \in 1..Len(fi) :
              L[fi[i].id].localColumnCount <= L[fi[j].id].column

-----------------------------------------------------------------------------
(* The bounds of the timeline *)

\* C21: totalMonths is the number of calendar months from the month of
\* minDate to the month of maxDate, both included; it is at least 1 when
\* entries are visible and 0 when none is.
C21_TotalMonthsInclusiveSpan ==
    LET b == bounds
    IN  IF filteredItems = <<>>
        THEN b.totalMonths = 0
        ELSE /\ b.totalMonths
                    = Cardinality(MonthIndex(b.minDate)..MonthIndex(b.maxDate))
             /\ b.totalMonths >= 1

\* C21 witness: visible entries whose bounds fall in one calendar month.
C21_Witness ==
    LET b == bounds
    IN  /\ filteredItems # <<>>
        /\ MonthIndex(b.minDate) = MonthIndex(b.maxDate)
        /\ b.totalMonths = 1

\* getTime of the resolved starts and of the resolved bound ends of the
\* visible entries.
StartTimes ==
    {getTime(parseDate(filteredItems[k].startDate, now)) : k \in 1..Len(filteredItems)}

BoundEndTimes ==
    {getTime(parseDateForBounds(filteredItems[k].endDate, now)) :
        k \in 1..Len(filteredItems)}

\* t is the least (greatest) element of the set S of times.
Earliest(t, S) == t \in S /\ \A o \in S : t <= o

Latest(t, S) == t \in S /\ \A o \in S : t >= o

\* C22 as claimed: with visible entries, minDate is the earliest resolved
\* start and maxDate the latest resolved bound end.
C22_MinIsEarliestStart ==
    LET b == bounds
    IN  filteredItems # <<>>
            => /\ Earliest(getTime(b.minDate), StartTimes)
               /\ Latest(getTime(b.maxDate), BoundEndTimes)

\* C22, amended: with visible entries, minDate is the earliest and maxDate the
\* latest of all the resolved starts and bound ends together; they are the
\* earliest start and the latest bound end when no visible entry has its
\* bound end before its start.
C22_BoundsOverStartsAndEnds ==
    LET b == bounds
        fi == filteredItems
        forwards == \A k \in 1..Len(fi) :
                        getTime(parseDate(fi[k].startDate, now))
                            <= getTime(parseDateForBounds(fi[k].endDate, now))
    IN  fi # <<>>
            => /\ Earliest(getTime(b.minDate), StartTimes \cup BoundEndTimes)
               /\ Latest(getTime(b.maxDate), StartTimes \cup BoundEndTimes)
               /\ forwards => /\ Earliest(getTime(b.minDate), StartTimes)
                              /\ Latest(getTime(b.maxDate), BoundEndTimes)

\* C22 witness: a bound end is earlier than every visible start, and minDate
\* is that end.
C22_Witness ==
    LET b == bounds
    IN  /\ Len(filteredItems) >= 2
        /\ getTime(b.minDate) \in BoundEndTimes \ StartTimes
        /\ \A t \in StartTimes : getTime(b.minDate) < t

-----------------------------------------------------------------------------
(* Heights and durations *)

\* The sum of the numbers of a sequence.
RECURSIVE SeqSum(_)
SeqSum(seq) == IF seq = <<>> THEN 0 ELSE Head(seq) + SeqSum(Tail(seq))

\* The pixels of the count months that begin with the start month of the
\* visible entry k, month by month at the scale of each.
PixelsOfMonths(k, count) ==
    LET item == filteredItems[k]
        md == minDate
        first == MonthsBetween(parseDate(item.startDate, now), md)
    IN  SeqSum([i \in 1..count |->
                    getScaleForMonth(first + i - 1, md, zoomZones, pixelsPerMonth)])

ActualDuration(k) ==
    getMonthsDuration(filteredItems[k].startDate, filteredItems[k].endDate, now)

\* The visual duration max(minVisualMonths, actual duration) of entry k,
\* rounded down and rounded up to whole months.
VisualDurationFloor(k) == Max(MIN_ITEM_HEIGHT \div pixelsPerMonth, ActualDuration(k))

VisualDurationCeiling(k) ==
    Max((MIN_ITEM_HEIGHT + pixelsPerMonth - 1) \div pixelsPerMonth, ActualDuration(k))

\* C23 as claimed: the height of an entry is the scale summed over the months
\* of its visual duration, floored at MIN_ITEM_HEIGHT.  The visual duration
\* need not be a whole number of months, so the height is asked to lie
\* between the sums over the visual duration rounded down and rounded up.
C23_HeightOverVisualDuration ==
    LET st == Styles(isReversed)
    IN  \A k \in DOMAIN st :
            /\ Max(MIN_ITEM_HEIGHT, PixelsOfMonths(k, VisualDurationFloor(k)))
                    <= st[k].height
            /\ st[k].height
                    <= Max(MIN_ITEM_HEIGHT, PixelsOfMonths(k, VisualDurationCeiling(k)))

\* C23, amended: the height of an entry is the scale summed over the months
\* of its actual duration, floored at MIN_ITEM_HEIGHT; with no zoom zone it is
\* the visual duration of the packing pass times pixelsPerMonth.
C23_HeightOverActualDuration ==
    LET st == Styles(isReversed)
        v == VisualIntervals
    IN  \A k \in DOMAIN st :
            /\ st[k].height = Max(MIN_ITEM_HEIGHT, PixelsOfMonths(k, ActualDuration(k)))
            /\ zoomZones = <<>> => st[k].height = v[k].end - v[k].start

\* C23 witness: an entry shorter than minVisualMonths at the floor height,
\* in a zone where the months of its visual duration sum to more.
C23_Witness ==
    LET st == Styles(isReversed)
    IN  /\ zoomZones # <<>>
        /\ \E k \in DOMAIN st :
              /\ ActualDuration(k) < VisualDurationFloor(k)
              /\ st[k].height = MIN_ITEM_HEIGHT
              /\ PixelsOfMonths(k, VisualDurationFloor(k)) > MIN_ITEM_HEIGHT

-----------------------------------------------------------------------------
(* Columns and overlap depth *)

\* The number of visible entries whose visual interval [start, end) holds
\* the point t, v being the visual intervals.
DepthAt(t, v) == Cardinality({j \in DOMAIN v : v[j].start <= t /\ t < v[j].end})

\* The greatest number of visible entries whose visual intervals hold a
\* common point; the interval bounds are whole numbers of the unit, so the
\* whole points decide.
OverlapDepth(v) ==
    IF DOMAIN v = {} THEN 0
    ELSE LET points == UNION {v[j].start..(v[j].end - 1) : j \in DOMAIN v}
         IN  SetMax({DepthAt(t, v) : t \in points})

\* C24: the packing pass opens as many columns as the greatest number of
\* entries whose visual intervals hold a common point, and numColumns is that
\* number when entries are visible.
C24_ColumnsEqualOverlapDepth ==
    LET v == VisualIntervals
        L == itemLayouts
        depth == OverlapDepth(v)
    IN  /\ Cardinality({L[id].column : id \in DOMAIN L}) = depth
        /\ filteredItems # <<>> => numColumns = depth

\* C24 witness: off the default scale, four entries of depth two, so that
\* both columns are used again.
C24_Witness ==
    /\ pixelsPerMonth # DEFAULT_PIXELS_PER_MONTH
    /\ Len(filteredItems) = 4
    /\ OverlapDepth(VisualIntervals) = 2
    /\ numColumns = 2

-----------------------------------------------------------------------------
(* Pixel spans *)

\* The pixel spans [top, top + height) of two entries have no pixel in common.
DisjointSpans(a, b) == a.top + a.height <= b.top \/ b.top + b.height <= a.top

\* C25: with zoom multipliers >= 1, two entries assigned to the same column
\* have disjoint pixel spans, in the normal and in the reversed orientation.
C25_SameColumnDisjointPixels ==
    LET fi == filteredItems
        L == itemLayouts
    IN  (\A z \in 1..Len(zoomZones) :
                zoomZones[z].multiplier.num >= zoomZones[z].multiplier.den)
            => \A reversed \in BOOLEAN :
                   LET st == Styles(reversed)
                   IN  \A i, j \in 1..Len(fi) :
                           (i # j /\ L[fi[i].id].column = L[fi[j].id].column)
                               => DisjointSpans(st[i], st[j])

\* C25 witness: off the default scale and under a zone, a column holds an
\* entry that crosses the edge of the zone and a later entry.
C25_Witness ==
    LET fi == filteredItems
        L == itemLayouts
        st == Styles(FALSE)
    IN  /\ pixelsPerMonth # DEFAULT_PIXELS_PER_MONTH
        /\ zoomZones # <<>>
        /\ \E i, j \in 1..Len(fi) :
              /\ i # j
              /\ L[fi[i].id].column = L[fi[j].id].column
              /\ fi[i].endDate.s = "ym"
              /\ fi[i].startDate.year # fi[i].endDate.year
              /\ st[i].height > MIN_ITEM_HEIGHT
              /\ st[i].top < st[j].top

\* C26 as claimed: in both orientations the pixel span of every visible
\* entry lies inside the container of the timeline, whose height is
\* totalHeight: top >= 0 and top + height <= totalHeight.
C26_SpanInsideContainer ==
    LET H == totalHeight
    IN  \A reversed \in BOOLEAN :
            LET st == Styles(reversed)
            IN  \A k \in DOMAIN st :
                    /\ st[k].top >= 0
                    /\ st[k].top + st[k].height <= H

-----------------------------------------------------------------------------
(* Filters and zoom zones, step by step *)

\* C27: no step empties the set of active filters, which starts with the
\* four categories: a step changes at most one category, and the only active
\* category stays active.
C27_FiltersNeverEmpty ==
    [][/\ activeFilters # {}
       /\ activeFilters' # {}
       /\ Cardinality((activeFilters \ activeFilters') \cup (activeFilters' \ activeFilters)) <= 1
       /\ Cardinality(activeFilters) = 1 => activeFilters \subseteq activeFilters']_vars

\* C27 witness: toggles have left a single category active.
C27_Witness ==
    /\ Cardinality(activeFilters) = 1
    /\ activeFilters \subseteq categories
    /\ Cardinality(categories) > 1

\* The add-form state.
formVars == <<isAddingZone, newZoneStart, newZoneEnd, newZoneMultiplier>>

\* The list after is the list before with the zone of the form at its end.
ZoneAppended ==
    /\ Len(zoomZones') = Len(zoomZones) + 1
    /\ SubSeq(zoomZones', 1, Len(zoomZones)) = zoomZones
    /\ zoomZones'[Len(zoomZones')] =
            [startYear |-> newZoneStart, endYear |-> newZoneEnd,
             multiplier |-> newZoneMultiplier]

\* The list after is the list before without the zone at position i
\* (1-based), the others in their order.
ZoneRemovedAt(i) ==
    /\ Len(zoomZones') = Len(zoomZones) - 1
    /\ \A k \in 1..Len(zoomZones') :
            zoomZones'[k] = IF k < i THEN zoomZones[k] ELSE zoomZones[k + 1]

-----------------------------------------------------------------------------
(* The entry form of the builder *)

\* C29: saveItem in add mode puts the edited entry at the end of items, in
\* edit mode it puts the edited entry in the place of every entry with its
\* id, the number and order of entries kept; the rest of the document stays.
\* Cancel leaves the document as it is.  After either, editingItem is null
\* and isAddingNew false; and isAddingNew holds only with an entry in the
\* form.
C29_SaveAndCancel ==
    [][/\ saveItem =>
            /\ resumeData'.profile = resumeData.profile
            /\ resumeData'.skills = resumeData.skills
            /\ IF isAddingNew
               THEN /\ Len(resumeData'.items) = Len(resumeData.items) + 1
                    /\ resumeData'.items[Len(resumeData'.items)] = editingItem
                    /\ \A k \in 1..Len(resumeData.items) :
                            resumeData'.items[k] = resumeData.items[k]
               ELSE /\ Len(resumeData'.items) = Len(resumeData.items)
                    /\ \A k \in 1..Len(resumeData.items) :
                            resumeData'.items[k] =
                                IF resumeData.items[k].id = editingItem.id
                                THEN editingItem ELSE resumeData.items[k]
            /\ editingItem' = NoItem
            /\ ~isAddingNew'
       /\ cancelEdit =>
            /\ resumeData' = resumeData
            /\ localStorage' = localStorage
            /\ editingItem' = NoItem
            /\ ~isAddingNew'
       /\ isAddingNew => editingItem # NoItem
       /\ isAddingNew' => editingItem' # NoItem]_vars

\* C29 witness: the entry the server gave was saved in edit mode with a new
\* end date, in front of an entry that was added, and the form is closed.
C29_Witness ==
    /\ page = "builder"
    /\ ~resumeData.null
    /\ Len(resumeData.items) = 2
    /\ resumeData.items[1].id # resumeData.items[2].id
    /\ resumeData.items[1].startDate = YM(2023, 1)
    /\ resumeData.items[1].endDate = PRESENT
    /\ resumeData.items[2].startDate = NoDate
    /\ editingItem = NoItem
    /\ ~isAddingNew

-----------------------------------------------------------------------------
(* Columns below an entry *)

\* C30: localColumnOffset of every entry equals its column; the entry
\* strictly overlaps an entry in each lower column, so that the columns of
\* its overlap set include 0..column and localColumnCount >= column + 1.
C30_OffsetEqualsColumn ==
    LET fi == filteredItems
        v == VisualIntervals
        L == itemLayouts
    IN  \A i \in 1..Len(fi) :
            LET layout == L[fi[i].id]
            IN  /\ layout.localColumnOffset = layout.column
                /\ layout.localColumnCount >= layout.column + 1
                /\ \A c \in 0..(layout.column - 1) :
                        \E j \in 1..Len(fi) :
                            /\ j # i
                            /\ L[fi[j].id].column = c
                            /\ Overlap(v[j], v[i])
                /\ 0..layout.column \subseteq OverlappingColumns(i, v, L)

\* C30 witness: off the default scale, an entry in the third column, and an
\* entry in the first column that came after entries of the other columns
\* and overlaps none of them.
C30_Witness ==
    LET fi == filteredItems
        L == itemLayouts
    IN  /\ pixelsPerMonth # DEFAULT_PIXELS_PER_MONTH
        /\ \E i \in 1..Len(fi) :
              /\ L[fi[i].id].column = 2
              /\ L[fi[i].id].localColumnOffset = 2
        /\ \E i \in 1..Len(fi) :
              /\ L[fi[i].id].column = 0
              /\ L[fi[i].id].localColumnCount = 1
              /\ numColumns >= 2

====
